---- MODULE Spec2Model ----
(***************************************************************************)
(* A model of the giffer GIF encoder (namespace uppr::gif): the Writer     *)
(* lifecycle (open / write_frame / close / destructor), the palette        *)
(* builder, the two quantizers, the LZW encoder and the BitStatus          *)
(* sub-block writer.  Source: gif.hpp (src/unnamed/part_002) and gif.cpp   *)
(* (src/unnamed/part_003, lines 831-1297).                                 *)
(*                                                                         *)
(* Arrays are 0-indexed in the source and sequences 1-indexed here: the    *)
(* element i of a source array is element i + 1 of the sequence.           *)
(***************************************************************************)
EXTENDS Integers, Sequences, FiniteSets, TLC

VARIABLES
    file,      \* the bytes written to the FILE so far (fputc / fputs / fwrite)
    fclosed,   \* how many times the File deleter ran (fputc(0x3b) + fclose)
    wr,        \* the Writer objects: the one in the optional, the moved-to one
    opened,    \* the arguments of Writer::open, or NoOpen
    hist,      \* one record per write_frame call that returned true
    last,      \* the last API call: operation, object, result, state before
    lz,        \* write_lzw_image's compression loop, one row per step
    pq,        \* a palette under construction and the colour looked up in it
    cli        \* the options of the command-line tool once main has parsed them

vars == <<file, fclosed, wr, opened, hist, last, lz, pq, cli>>

(***************************************************************************)
(* Integer helpers: the source's fixed-width arithmetic.                   *)
(***************************************************************************)
\* part_002:56-67
max(l, r) == IF l > r THEN l ELSE r
min(l, r) == IF l < r THEN l ELSE r
abs(i) == IF i < 0 THEN -i ELSE i

\* C++ integer division truncates toward zero (\div floors).
TruncDiv(a, b) == IF a >= 0 THEN a \div b ELSE -((-a) \div b)

\* static_cast<u8> / fputc's conversion to unsigned char
U8(x) == x % 256

\* bit k of x (x >= 0)
BitAt(x, k) == (x \div (2 ^ k)) % 2

(***************************************************************************)
(* BitStatus: part_002:384-412, part_003:1058-1074.  A record              *)
(* [bit_index, byte, chunk_index, chunk, out]: chunk holds the first       *)
(* chunk_index entries of the 256-byte array (the entries above are stale  *)
(* and never read), out the bytes the frame has written to the FILE, and   *)
(* peak (not in the source) the largest chunk_index there has been, torn   *)
(* (not in the source) how often write_chunk ran on a partial byte that    *)
(* held bits, which it discards.                                           *)
(***************************************************************************)
BitStatusInit(out) ==
    [bit_index |-> 0, byte |-> 0, chunk_index |-> 0, chunk |-> <<>>, out |-> out,
     peak |-> 0, torn |-> 0]

\* bits packed from the top of the byte down
write_bit_Mutant(s, bit) ==
    LET b == (bit % 2) * (2 ^ (7 - s.bit_index))
        byte == IF BitAt(s.byte, 7 - s.bit_index) = 1 THEN s.byte ELSE U8(s.byte + b)
        bi == s.bit_index + 1
    IN  IF bi > 7
        THEN [s EXCEPT !.chunk = Append(s.chunk, byte),
                       !.chunk_index = s.chunk_index + 1,
                       !.peak = max(s.peak, s.chunk_index + 1),
                       !.bit_index = 0,
                       !.byte = 0]
        ELSE [s EXCEPT !.bit_index = bi, !.byte = byte]

\* part_002:393-406
write_bit(s, bit) ==
    LET b == (bit % 2) * (2 ^ s.bit_index)
        \* byte |= bit
        byte == IF BitAt(s.byte, s.bit_index) = 1 THEN s.byte ELSE U8(s.byte + b)
        bi == s.bit_index + 1
    IN  IF bi > 7
        THEN [s EXCEPT !.chunk = Append(s.chunk, byte),
                       !.chunk_index = s.chunk_index + 1,
                       !.peak = max(s.peak, s.chunk_index + 1),
                       !.bit_index = 0,
                       !.byte = 0]
        ELSE [s EXCEPT !.bit_index = bi, !.byte = byte]

write_chunk(s) ==
    [bit_index |-> 0, byte |-> 0, chunk_index |-> 0, chunk |-> <<>>,
     out |-> s.out \o <<U8(s.chunk_index)>> \o SubSeq(s.chunk, 1, s.chunk_index),
     peak |-> s.peak,
     torn |-> s.torn + (IF s.bit_index # 0 \/ s.byte # 0 THEN 1 ELSE 0)]

ChunkFull_Mutant(s) == s.chunk_index = 256

\* part_003:1072: the test that flushes the chunk
ChunkFull(s) == s.chunk_index = 255

RECURSIVE write_code(_, _, _)
write_code(s, code, length) ==
    IF length = 0 THEN s
    ELSE LET s1 == write_bit(s, code)
             s2 == IF ChunkFull(s1) THEN write_chunk(s1) ELSE s1
         IN  write_code(s2, code \div 2, length - 1)

(***************************************************************************)
(* write_lzw_image: part_003:1085-1190.  The LZW state is a record         *)
(* [min_code_size, clear_code, codetree, curr_code, code_size, max_code,   *)
(* stat, codes]; codetree maps <<code, value>> to codetree[code].next      *)
(* [value] for the entries that are not 0; codes lists the <<code, width>> *)
(* pairs handed to write_code, in order.                                   *)
(***************************************************************************)
codetree_size == 4096

\* codetree[c].next[v], 0 when unused
codetree_next(tree, c, v) == IF <<c, v>> \in DOMAIN tree THEN tree[<<c, v>>] ELSE 0

\* stat.write_code(f, code, length).  The code is converted to u32: for the
\* int -1 that is all ones, which is what % 2 and the flooring \div 2 of
\* write_bit / write_code give on a negative integer.
LzwEmit(L, code, length) ==
    [L EXCEPT !.stat = write_code(L.stat, code, length),
              !.codes = Append(L.codes, <<code, length>>)]

\* part_003:1117-1133: min code size byte, fresh dictionary, first clear code
LzwSetup(bit_depth, out) ==
    LET min_code_size == bit_depth
        clear_code == 2 ^ bit_depth
        code_size == min_code_size + 1
    IN  LzwEmit([min_code_size |-> min_code_size,
                 clear_code |-> clear_code,
                 codetree |-> <<>>,
                 curr_code |-> -1,
                 code_size |-> code_size,
                 max_code |-> clear_code + 1,
                 stat |-> BitStatusInit(Append(out, U8(min_code_size))),
                 codes |-> <<>>],
                clear_code, code_size)

LzwGrows_Mutant(max_code, code_size) == max_code > 2 ^ code_size

\* part_003:1159-1163: the barrier that widens the codes
LzwGrows(max_code, code_size) == max_code >= 2 ^ code_size

LzwFull_Mutant(max_code) == max_code = codetree_size

\* part_003:1164: the dictionary is full
LzwFull(max_code) == max_code = codetree_size - 1

\* part_003:1146-1175: one pixel of the loop
LzwPixel(L, next_value) ==
    IF L.curr_code < 0
    THEN [L EXCEPT !.curr_code = next_value]
    ELSE IF codetree_next(L.codetree, L.curr_code, next_value) # 0
    THEN [L EXCEPT !.curr_code = codetree_next(L.codetree, L.curr_code, next_value)]
    ELSE LET L1 == LzwEmit(L, L.curr_code, L.code_size)
             max_code == L.max_code + 1
             tree == (<<L.curr_code, next_value>> :> max_code) @@ L.codetree
             code_size == IF LzwGrows(max_code, L.code_size)
                          THEN L.code_size + 1 ELSE L.code_size
         IN  IF LzwFull(max_code)
             THEN [LzwEmit(L1, L.clear_code, code_size)
                      EXCEPT !.codetree = <<>>,
                             !.code_size = L.min_code_size + 1,
                             !.max_code = L.clear_code + 1,
                             !.curr_code = next_value]
             ELSE [L1 EXCEPT !.codetree = tree,
                             !.code_size = code_size,
                             !.max_code = max_code,
                             !.curr_code = next_value]

\* part_003:1185-1186: while (stat.bit_index) stat.write_bit(0)
RECURSIVE PadByte(_)
PadByte(s) == IF s.bit_index = 0 THEN s ELSE PadByte(write_bit(s, 0))

\* part_003:1187: the last partial chunk
FlushLast(s) == IF s.chunk_index # 0 THEN write_chunk(s) ELSE s

EndCodeWidth_Mutant(L) == L.code_size

\* part_003:1182: the width the end code is written with
EndCodeWidth(L) == L.min_code_size + 1

\* part_003:1179-1189: compression footer, last chunk, block terminator
LzwFooter(L) ==
    LET L1 == LzwEmit(L, L.curr_code, L.code_size)
        L2 == LzwEmit(L1, L.clear_code, L.code_size)
        L3 == LzwEmit(L2, L.clear_code + 1, EndCodeWidth(L))
        s == FlushLast(PadByte(L3.stat))
    IN  [L3 EXCEPT !.stat = [s EXCEPT !.out = Append(s.out, 0)]]

\* part_003:1135-1177: the loop over the pixels' 4th channel, from pixel i on
RECURSIVE LzwLoop(_, _, _)
LzwLoop(L, indices, i) ==
    IF i > Len(indices) THEN L
    ELSE LzwLoop(LzwPixel(L, indices[i]), indices, i + 1)

\* part_003:1136-1176: the inner loop, over the n pixels of one row from i
\* on: the first half of them, then the others.  max_code stays below
\* codetree_size; reading it has L computed before the next pixel is taken.
RECURSIVE LzwRow(_, _, _, _)
LzwRow(L, indices, i, n) ==
    IF n = 0 \/ L.max_code >= codetree_size THEN L
    ELSE IF n = 1 THEN LzwPixel(L, indices[i])
    ELSE LzwRow(LzwRow(L, indices, i, n \div 2), indices, i + n \div 2, n - n \div 2)

\* part_003:1117-1189 for a whole raster of palette indices
LzwCompress(bit_depth, indices, out) ==
    LzwFooter(LzwLoop(LzwSetup(bit_depth, out), indices, 1))

(***************************************************************************)
(* Images are sequences of pixels <<R, G, B, A>>; pixel i of the source    *)
(* (bytes 4i .. 4i+3) is element i + 1.                                    *)
(***************************************************************************)
SetMin(S) == CHOOSE x \in S : \A y \in S : x <= y
SetMax(S) == CHOOSE x \in S : \A y \in S : x >= y

\* the values of channel c (1 = R, 2 = G, 3 = B) of the pixels
Channel(image, c) == {image[i][c] : i \in 1..Len(image)}

RECURSIVE ChannelSum(_, _, _)
ChannelSum(image, c, i) ==
    IF i > Len(image) THEN 0 ELSE image[i][c] + ChannelSum(image, c, i + 1)

\* part_002:87-100
find_darkest_color(image) ==
    <<SetMin({255} \cup Channel(image, 1)), SetMin({255} \cup Channel(image, 2)),
      SetMin({255} \cup Channel(image, 3))>>

\* part_002:103-116
find_lightest_color(image) ==
    <<SetMax({0} \cup Channel(image, 1)), SetMax({0} \cup Channel(image, 2)),
      SetMax({0} \cup Channel(image, 3))>>

\* the mean rounded down
find_subcube_average_Mutant(image) ==
    LET n == Len(image)
    IN  <<ChannelSum(image, 1, 1) \div n, ChannelSum(image, 2, 1) \div n,
          ChannelSum(image, 3, 1) \div n>>

\* part_002:118-139 (num_pixels >= 1 where it is called)
find_subcube_average(image) ==
    LET n == Len(image)
    IN  <<(ChannelSum(image, 1, 1) + n \div 2) \div n,
          (ChannelSum(image, 2, 1) + n \div 2) \div n,
          (ChannelSum(image, 3, 1) + n \div 2) \div n>>

\* part_002:141-166
find_largest_range(image) ==
    <<SetMax({0} \cup Channel(image, 1)) - SetMin({255} \cup Channel(image, 1)),
      SetMax({0} \cup Channel(image, 2)) - SetMin({255} \cup Channel(image, 2)),
      SetMax({0} \cup Channel(image, 3)) - SetMin({255} \cup Channel(image, 3))>>

\* part_002:168-188, a and b counted from 0
swap_pixels(image, a, b) ==
    [image EXCEPT ![a + 1] = image[b + 1], ![b + 1] = image[a + 1]]

\* part_002:198-210: the loop of partition, from position i on
RECURSIVE PartitionLoop(_, _, _, _, _, _, _)
PartitionLoop(image, i, right, elt, pivot_value, store_index, split) ==
    IF ~(i < right - 1) THEN [image |-> image, store_index |-> store_index]
    ELSE LET val == image[i + 1][elt + 1]
         IN  IF val < pivot_value
             THEN PartitionLoop(swap_pixels(image, i, store_index), i + 1, right, elt,
                                pivot_value, store_index + 1, split)
             ELSE IF val = pivot_value
             THEN IF split
                  THEN PartitionLoop(swap_pixels(image, i, store_index), i + 1, right,
                                     elt, pivot_value, store_index + 1, ~split)
                  ELSE PartitionLoop(image, i + 1, right, elt, pivot_value,
                                     store_index, ~split)
             ELSE PartitionLoop(image, i + 1, right, elt, pivot_value, store_index,
                                split)

\* partition without its last swap: the pivot stays at the end of the range
partition_Mutant(image, left, right, elt, pivot_index) ==
    LET pivot_value == image[pivot_index + 1][elt + 1]
        r == PartitionLoop(swap_pixels(image, pivot_index, right - 1), left, right,
                           elt, pivot_value, left, FALSE)
    IN  [image |-> r.image, store_index |-> r.store_index]

\* part_002:191-215
partition(image, left, right, elt, pivot_index) ==
    LET pivot_value == image[pivot_index + 1][elt + 1]
        r == PartitionLoop(swap_pixels(image, pivot_index, right - 1), left, right,
                           elt, pivot_value, left, FALSE)
    IN  [image |-> swap_pixels(r.image, r.store_index, right - 1),
         store_index |-> r.store_index]

\* part_002:219-233 (right >= 1 wherever it is called, so right - 1 does not wrap)
RECURSIVE partition_by_median(_, _, _, _, _)
partition_by_median(image, left, right, com, needed_center) ==
    IF ~(left < right - 1) THEN image
    ELSE LET p == partition(image, left, right, com, left + (right - left) \div 2)
             pivot_index == p.store_index
             a == IF pivot_index > needed_center
                  THEN partition_by_median(p.image, left, pivot_index, com,
                                           needed_center)
                  ELSE p.image
         IN  IF pivot_index < needed_center
             THEN partition_by_median(a, pivot_index + 1, right, com, needed_center)
             ELSE a

(***************************************************************************)
(* Palette: part_002:235-380, part_003:864-901.  A record [bit_depth, r,   *)
(* g, b, tree_split_elt, tree_split]; the arrays are given for the indices *)
(* below 2^bit_depth, the only ones read or written at that depth.  The    *)
(* constructor does not initialise the arrays: they start with whatever    *)
(* the memory holds (junk).  set_cols and set_nodes (not in the source)    *)
(* are the entries the constructor has assigned.                           *)
(***************************************************************************)
PaletteRaw(bit_depth, junk) ==
    [bit_depth |-> bit_depth,
     r |-> [i \in 0..(2 ^ bit_depth - 1) |-> junk.col],
     g |-> [i \in 0..(2 ^ bit_depth - 1) |-> junk.colg],
     b |-> [i \in 0..(2 ^ bit_depth - 1) |-> junk.colb],
     tree_split_elt |-> [i \in 0..(2 ^ bit_depth - 1) |-> junk.elt],
     tree_split |-> [i \in 0..(2 ^ bit_depth - 1) |-> junk.split],
     set_cols |-> {},
     set_nodes |-> {}]

SetColor(pal, i, c) ==
    [pal EXCEPT !.r[i] = c[1], !.g[i] = c[2], !.b[i] = c[3],
                !.set_cols = pal.set_cols \cup {i}]

\* the axis chosen without looking at the blue range when red beats green
SplitAxis_Mutant(ranges) ==
    IF ranges[1] > ranges[2] THEN 0 ELSE IF ranges[3] > ranges[2] THEN 2 ELSE 1

\* part_002:358-360
SplitAxis(ranges) ==
    LET r_range == ranges[1]
        g_range == ranges[2]
        b_range == ranges[3]
        c1 == IF b_range > g_range THEN 2 ELSE 1
    IN  IF r_range > b_range /\ r_range > g_range THEN 0 ELSE c1

\* part_002:313-349: the colour of the leaf first_elt
LeafColor(pal, image, first_elt, build_for_dither) ==
    IF build_for_dither /\ first_elt = 1 THEN find_darkest_color(image)
    ELSE IF build_for_dither /\ first_elt = 2 ^ pal.bit_depth - 1
    THEN find_lightest_color(image)
    ELSE find_subcube_average(image)

\* part_002:306-376; image is the num_pixels pixels the call is given
RECURSIVE split(_, _, _, _, _, _, _, _)
split(pal, image, first_elt, last_elt, split_elt, split_dist, tree_node, build_for_dither) ==
    LET num_pixels == Len(image)
    IN  IF last_elt <= first_elt \/ num_pixels = 0 THEN pal
        ELSE IF last_elt = first_elt + 1
        THEN SetColor(pal, first_elt, LeafColor(pal, image, first_elt, build_for_dither))
        ELSE LET split_com == SplitAxis(find_largest_range(image))
                 sub_pixels_a ==
                     (num_pixels * (split_elt - first_elt)) \div (last_elt - first_elt)
                 sorted == partition_by_median(image, 0, num_pixels, split_com,
                                               sub_pixels_a)
                 pal1 == [pal EXCEPT
                             !.tree_split_elt[tree_node] = split_com,
                             !.tree_split[tree_node] =
                                 sorted[sub_pixels_a + 1][split_com + 1],
                             !.set_nodes = pal.set_nodes \cup {tree_node}]
                 pal2 == split(pal1, SubSeq(sorted, 1, sub_pixels_a), first_elt,
                               split_elt, split_elt - split_dist, split_dist \div 2,
                               tree_node * 2, build_for_dither)
             IN  split(pal2, SubSeq(sorted, sub_pixels_a + 1, num_pixels), split_elt,
                       last_elt, split_elt + split_dist, split_dist \div 2,
                       tree_node * 2 + 1, build_for_dither)

\* part_003:905-924: the loop from pixel i on, wit the write cursor
RECURSIVE PickLoop(_, _, _, _, _)
PickLoop(last_frame, frame, num_pixels, i, wit) ==
    IF ~(i < num_pixels) THEN [frame |-> frame, num_changed |-> wit]
    ELSE IF last_frame[i + 1][1] # frame[i + 1][1]
            \/ last_frame[i + 1][2] # frame[i + 1][2]
            \/ last_frame[i + 1][3] # frame[i + 1][3]
    THEN PickLoop(last_frame,
                  [frame EXCEPT ![wit + 1] = <<frame[i + 1][1], frame[i + 1][2],
                                               frame[i + 1][3], frame[wit + 1][4]>>],
                  num_pixels, i + 1, wit + 1)
    ELSE PickLoop(last_frame, frame, num_pixels, i + 1, wit)

\* the loop without the first pixel
pick_changed_pixels_Mutant(last_frame, frame, num_pixels) ==
    PickLoop(last_frame, frame, num_pixels, 1, 0)

\* part_003:905-924
pick_changed_pixels(last_frame, frame, num_pixels) ==
    PickLoop(last_frame, frame, num_pixels, 0, 0)

PaletteFinish_Mutant(pal) == [pal EXCEPT !.r[0] = 0, !.g[0] = 0, !.b[0] = 0]

\* part_003:884-888: the node above the transparency leaf, and entry 0
PaletteFinish(pal) ==
    [pal EXCEPT !.tree_split[2 ^ (pal.bit_depth - 1)] = 0,
                !.tree_split_elt[2 ^ (pal.bit_depth - 1)] = 0,
                !.r[0] = 0, !.g[0] = 0, !.b[0] = 0]

NoFrame == <<>>

\* part_003:864-889; last_frame is NoFrame for a null pointer
Palette(last_frame, next_frame, width, height, bit_depth, build_for_dither, junk) ==
    LET destroyable_image == SubSeq(next_frame, 1, width * height)
        picked == IF last_frame # NoFrame
                  THEN pick_changed_pixels(last_frame, destroyable_image, width * height)
                  ELSE [frame |-> destroyable_image, num_changed |-> width * height]
        last_elt == 2 ^ bit_depth
        split_elt == last_elt \div 2
        split_dist == split_elt \div 2
    IN  PaletteFinish(split(PaletteRaw(bit_depth, junk),
                            SubSeq(picked.frame, 1, picked.num_changed),
                            1, last_elt, split_elt, split_dist, 1, build_for_dither))

\* part_002:280-281: comps[tree_split_elt[tree_root]]; an index above 2 reads
\* past the three-element array
SplitComp(pal, r, g, b, tree_root, junk) ==
    LET e == pal.tree_split_elt[tree_root]
    IN  IF e = 0 THEN r ELSE IF e = 1 THEN g ELSE IF e = 2 THEN b ELSE junk.comp

IsTransparentLeaf_Mutant(ind) == FALSE

\* part_002:261-263: the leaf that must not be returned
IsTransparentLeaf(ind) == ind = 0

\* part_002:258-302; returns <<best_ind, best_diff>>
RECURSIVE get_closest_pallete_color(_, _, _, _, _, _, _)
get_closest_pallete_color(pal, r, g, b, best, tree_root, junk) ==
    IF tree_root > 2 ^ pal.bit_depth - 1
    THEN LET ind == tree_root - 2 ^ pal.bit_depth
             diff == abs(r - pal.r[ind]) + abs(g - pal.g[ind]) + abs(b - pal.b[ind])
         IN  IF IsTransparentLeaf(ind) THEN best
             ELSE IF diff < best[2] THEN <<ind, diff>> ELSE best
    ELSE LET split_comp == SplitComp(pal, r, g, b, tree_root, junk)
             split_pos == pal.tree_split[tree_root]
         IN  IF split_pos > split_comp
             THEN LET b1 == get_closest_pallete_color(pal, r, g, b, best,
                                                      tree_root * 2, junk)
                  IN  IF b1[2] > split_pos - split_comp
                      THEN get_closest_pallete_color(pal, r, g, b, b1,
                                                     tree_root * 2 + 1, junk)
                      ELSE b1
             ELSE LET b1 == get_closest_pallete_color(pal, r, g, b, best,
                                                      tree_root * 2 + 1, junk)
                  IN  IF b1[2] > split_comp - split_pos
                      THEN get_closest_pallete_color(pal, r, g, b, b1,
                                                     tree_root * 2, junk)
                      ELSE b1

\* part_003:896-900: the entries from i on, three bytes each
PaletteEntries(pal, i) ==
    [k \in 1..(3 * (2 ^ pal.bit_depth - i)) |->
        LET ii == i + (k - 1) \div 3
            c == (k - 1) % 3
        IN  U8(IF c = 0 THEN pal.r[ii] ELSE IF c = 1 THEN pal.g[ii] ELSE pal.b[ii])]

\* part_003:891-901
PaletteWrite(pal) == <<0, 0, 0>> \o PaletteEntries(pal, 1)

ThresholdStart_Mutant == <<1, 0>>

(***************************************************************************)
(* The quantizers: part_003:926-1054.  Both return the paletted frame out  *)
(* (pixel = <<R, G, B, palette index>>) and, not in the source, targets:   *)
(* the colour each pixel was compared and searched with; dither_image also *)
(* returns adds, the <<from, to>> pixel pairs of its error propagation.    *)
(* last_frame is NoFrame for a null pointer.                               *)
(***************************************************************************)
\* part_003:1037-1038
ThresholdStart == <<1, 1000000>>

DitherStart_Mutant == <<0, 0>>

\* part_003:961-962
DitherStart == <<0, 1000000>>

SameAsLast_Mutant(last_frame, i, r, g, b) == FALSE

\* part_003:1029-1030 and 952-953: the pixel repeats the previous frame
SameAsLast(last_frame, i, r, g, b) ==
    /\ last_frame # NoFrame
    /\ last_frame[i + 1][1] = r
    /\ last_frame[i + 1][2] = g
    /\ last_frame[i + 1][3] = b

\* part_003:1026-1053, from pixel i on
RECURSIVE ThresholdLoop(_, _, _, _, _, _, _)
ThresholdLoop(last_frame, next_frame, num_pixels, pal, junk, i, out) ==
    IF ~(i < num_pixels) THEN out
    ELSE LET p == next_frame[i + 1]
         IN  IF SameAsLast(last_frame, i, p[1], p[2], p[3])
             THEN ThresholdLoop(last_frame, next_frame, num_pixels, pal, junk, i + 1,
                                Append(out, <<last_frame[i + 1][1], last_frame[i + 1][2],
                                              last_frame[i + 1][3], 0>>))
             ELSE LET best == get_closest_pallete_color(pal, p[1], p[2], p[3],
                                                        ThresholdStart, 1, junk)
                      best_ind == best[1]
                  IN  ThresholdLoop(last_frame, next_frame, num_pixels, pal, junk, i + 1,
                                    Append(out, <<pal.r[best_ind], pal.g[best_ind],
                                                  pal.b[best_ind], best_ind>>))

\* part_003:1023-1054
threshold_image(last_frame, next_frame, width, height, pal, junk) ==
    [out |-> ThresholdLoop(last_frame, next_frame, width * height, pal, junk, 0, <<>>),
     targets |-> [i \in 1..(width * height) |->
                     <<next_frame[i][1], next_frame[i][2], next_frame[i][3]>>],
     adds |-> {}]

\* the error added as it is
AddError_Mutant(quant, loc, err, weight) ==
    LET pix == quant[loc + 1]
    IN  [quant EXCEPT ![loc + 1] =
            <<pix[1] + TruncDiv(err[1] * weight, 16),
              pix[2] + TruncDiv(err[2] * weight, 16),
              pix[3] + TruncDiv(err[3] * weight, 16),
              pix[4]>>]

\* part_003:989-991 and the like: pix[c] += max(-pix[c], err[c] * weight / 16)
AddError(quant, loc, err, weight) ==
    LET pix == quant[loc + 1]
    IN  [quant EXCEPT ![loc + 1] =
            <<pix[1] + max(-pix[1], TruncDiv(err[1] * weight, 16)),
              pix[2] + max(-pix[2], TruncDiv(err[2] * weight, 16)),
              pix[3] + max(-pix[3], TruncDiv(err[3] * weight, 16)),
              pix[4]>>]

\* part_003:982-985: the four pixels the error of pixel (x, y) goes to, with
\* their weights
ErrorTargets(x, y, width) ==
    <<<<y * width + x + 1, 7>>,
      <<y * width + width + x - 1, 3>>,
      <<y * width + width + x, 5>>,
      <<y * width + width + x + 1, 1>>>>

\* part_003:987-1013
RECURSIVE Propagate(_, _, _, _, _)
Propagate(quant, locs, k, err, num_pixels) ==
    IF k > Len(locs) THEN quant
    ELSE IF locs[k][1] < num_pixels
    THEN Propagate(AddError(quant, locs[k][1], err, locs[k][2]), locs, k + 1, err,
                   num_pixels)
    ELSE Propagate(quant, locs, k + 1, err, num_pixels)

\* part_003:939-1015, from pixel i = y * width + x on
RECURSIVE DitherLoop(_, _, _, _, _, _, _)
DitherLoop(last_frame, width, num_pixels, pal, junk, i, st) ==
    IF ~(i < num_pixels) THEN st
    ELSE LET x == i % width
             y == i \div width
             next_pix == st.quant[i + 1]
             rr == TruncDiv(next_pix[1] + 127, 256)
             gg == TruncDiv(next_pix[2] + 127, 256)
             bb == TruncDiv(next_pix[3] + 127, 256)
         IN  IF SameAsLast(last_frame, i, rr, gg, bb)
             THEN DitherLoop(last_frame, width, num_pixels, pal, junk, i + 1,
                             [quant |-> [st.quant EXCEPT ![i + 1] = <<rr, gg, bb, 0>>],
                              targets |-> Append(st.targets, <<rr, gg, bb>>),
                              adds |-> st.adds])
             ELSE LET best == get_closest_pallete_color(pal, rr, gg, bb, DitherStart,
                                                        1, junk)
                      best_ind == best[1]
                      err == <<next_pix[1] - pal.r[best_ind] * 256,
                               next_pix[2] - pal.g[best_ind] * 256,
                               next_pix[3] - pal.b[best_ind] * 256>>
                      q1 == [st.quant EXCEPT ![i + 1] =
                                <<pal.r[best_ind], pal.g[best_ind], pal.b[best_ind],
                                  best_ind>>]
                      locs == ErrorTargets(x, y, width)
                  IN  DitherLoop(last_frame, width, num_pixels, pal, junk, i + 1,
                                 [quant |-> Propagate(q1, locs, 1, err, num_pixels),
                                  targets |-> Append(st.targets, <<rr, gg, bb>>),
                                  adds |-> st.adds \cup
                                      {<<i, locs[k][1]>> : k \in
                                          {j \in 1..4 : locs[j][1] < num_pixels}}])

\* part_003:926-1021
dither_image(last_frame, next_frame, width, height, pal, junk) ==
    LET num_pixels == width * height
        quant_pixels == [i \in 1..num_pixels |->
                            <<next_frame[i][1] * 256, next_frame[i][2] * 256,
                              next_frame[i][3] * 256, next_frame[i][4] * 256>>]
        st == DitherLoop(last_frame, width, num_pixels, pal, junk, 0,
                         [quant |-> quant_pixels, targets |-> <<>>, adds |-> {}])
    IN  [out |-> [i \in 1..num_pixels |->
                     <<U8(st.quant[i][1]), U8(st.quant[i][2]), U8(st.quant[i][3]),
                       U8(st.quant[i][4])>>],
         targets |-> st.targets,
         adds |-> st.adds]

\* u16, low byte first
U16LE_Mutant(x) == <<(x \div 256) % 256, x % 256>>

U16LE(x) == <<x % 256, (x \div 256) % 256>>

\* part_003:1089-1115: graphics control extension, image descriptor, palette
LzwImageHeader(left, top, width, height, delay, pal) ==
    <<33, 249, 4, 5>> \o U16LE(delay) \o <<0, 0>>
    \o <<44>> \o U16LE(left) \o U16LE(top) \o U16LE(width) \o U16LE(height)
    \o <<U8(128 + pal.bit_depth - 1)>>
    \o PaletteWrite(pal)

\* the 4th channel of the first num_pixels pixels, in raster order
IndexRaster(image, num_pixels) == [i \in 1..num_pixels |-> image[i][4]]

\* part_003:1085-1190: the bytes write_lzw_image appends to the FILE, and
\* the state of the compressor at the end
write_lzw_image(image, left, top, width, height, delay, pal) ==
    LzwCompress(pal.bit_depth, IndexRaster(image, width * height),
                LzwImageHeader(left, top, width, height, delay, pal))

(***************************************************************************)
(* Writer: part_002:414-440, part_003:1194-1296.  A Writer object is a     *)
(* record [status, f, old_image, alloc, first_frame]: f is TRUE while the  *)
(* unique_ptr holds the FILE, old_image is NoFrame for a null pointer and  *)
(* alloc the number of pixels allocated for it at open.                    *)
(***************************************************************************)
NoWriter == [status |-> "none", f |-> FALSE, old_image |-> NoFrame, alloc |-> 0,
             first_frame |-> TRUE]

\* the looping block whatever the delay
OpenBytes_Mutant(width, height, delay) ==
    <<71, 73, 70, 56, 57, 97>>
    \o U16LE(width) \o U16LE(height)
    \o <<240, 0, 0>>
    \o <<0, 0, 0, 0, 0, 0>>
    \o <<33, 255, 11>> \o <<78, 69, 84, 83, 67, 65, 80, 69, 50, 46, 48>>
    \o <<3, 1, 0, 0, 0>>

\* part_003:1221-1258: the bytes open writes
OpenBytes(width, height, delay) ==
    <<71, 73, 70, 56, 57, 97>>
    \o U16LE(width) \o U16LE(height)
    \o <<240, 0, 0>>
    \o <<0, 0, 0, 0, 0, 0>>
    \o (IF delay # 0
        THEN <<33, 255, 11>> \o <<78, 69, 84, 83, 67, 65, 80, 69, 50, 46, 48>>
             \o <<3, 1, 0, 0, 0>>
        ELSE <<>>)

\* part_003:1210: make_unique<u8[]>(width * height * 4) zeroes the buffer
ZeroImage(num_pixels) == [i \in 1..num_pixels |-> <<0, 0, 0, 0>>]

DeleterBytes_Mutant == <<>>

\* part_003:1213-1218: the File deleter
DeleterBytes == <<59>>

\* part_003:1272-1274: the palette is trained on the changed pixels only when
\* not dithering
PaletteLast(old_image, dither) == IF dither THEN NoFrame ELSE old_image

\* part_003:1267-1284: what a write_frame call that gets past the null check
\* computes.  buffer is the memory at old_image.get(): the allocation,
\* followed (when the frame has more pixels than were allocated) by the
\* memory behind it, which holds junk.pix.
FrameOutput(w, in, buffer, pal, quantized) ==
    LET num_pixels == in.width * in.height
        after == quantized.out \o SubSeq(buffer, num_pixels + 1, Len(buffer))
        lzw == write_lzw_image(after, 0, 0, in.width, in.height, in.delay, pal)
    IN  \* the quantizer has returned before write_lzw_image is called
        CASE Len(quantized.out) = num_pixels ->
        [old_image |-> after,
         bytes |-> lzw.stat.out,
         rec |-> [in |-> in, first |-> w.first_frame,
                  before |-> buffer, after |-> after, pal |-> pal,
                  targets |-> quantized.targets, adds |-> quantized.adds,
                  codes |-> lzw.codes, peak |-> lzw.stat.peak,
                  table |-> Len(PaletteWrite(pal)),
                  overflow |-> num_pixels > w.alloc, start |-> 0]]

\* part_003:1276-1281: dither_image or threshold_image
FrameQuantized(w, in, junk, buffer, old_image, pal) ==
    \* the palette is complete (part_003:864: its bit_depth is the call's)
    \* before the quantizer is called
    CASE pal.bit_depth = in.bit_depth ->
    FrameOutput(w, in, buffer, pal,
                IF in.dither
                THEN dither_image(old_image, in.image, in.width, in.height, pal, junk)
                ELSE threshold_image(old_image, in.image, in.width, in.height, pal,
                                     junk))

\* part_003:1267-1274: old_image is null for the first frame; the palette
FramePalette(w, in, junk, buffer, old_image) ==
    FrameQuantized(w, in, junk, buffer, old_image,
                   Palette(PaletteLast(old_image, in.dither), in.image, in.width,
                           in.height, in.bit_depth, in.dither, junk))

FrameBuffer(w, in, junk, buffer) ==
    FramePalette(w, in, junk, buffer, IF w.first_frame THEN NoFrame ELSE buffer)

FrameResult(w, in, junk) ==
    FrameBuffer(w, in, junk,
                IF in.width * in.height > Len(w.old_image)
                THEN w.old_image
                     \o [i \in 1..(in.width * in.height - Len(w.old_image)) |-> junk.pix]
                ELSE w.old_image)

Crashed == last.op = "crash"

WriterClosed_Mutant(w) == FALSE

\* part_003:1265 and 1290: if (!f) return false
WriterClosed(w) == ~w.f

\* Writer::open, fopen succeeds: part_003:1194-1261
Open(width, height, delay) ==
    /\ opened.state = "none"
    /\ opened' = [state |-> "ok", width |-> width, height |-> height, delay |-> delay]
    /\ wr' = [wr EXCEPT !["opt"] = [status |-> "alive", f |-> TRUE,
                                    old_image |-> ZeroImage(width * height),
                                    alloc |-> width * height,
                                    first_frame |-> TRUE]]
    /\ file' = OpenBytes(width, height, delay)
    /\ last' = [op |-> "open", obj |-> "opt", ret |-> TRUE]
    /\ UNCHANGED <<fclosed, hist, lz, pq, cli>>

\* Writer::open, fopen fails: part_003:1207
OpenFails ==
    /\ opened.state = "none"
    /\ opened' = [state |-> "failed"]
    /\ last' = [op |-> "open", obj |-> "opt", ret |-> FALSE]
    /\ UNCHANGED <<file, fclosed, wr, hist, lz, pq, cli>>

MovedFrom_Mutant(w) == w

\* part_002:414-440: the members f and old_image are unique_ptrs, which a
\* move leaves null; first_frame is copied
MovedFrom(w) == [w EXCEPT !.f = FALSE, !.old_image = NoFrame]

\* auto writer = std::move(*writer_): the implicit move constructor
MoveOut ==
    /\ ~Crashed
    /\ wr["opt"].status = "alive"
    /\ wr["w"].status = "none"
    /\ wr' = [wr EXCEPT !["w"] = wr["opt"], !["opt"] = MovedFrom(wr["opt"])]
    /\ last' = [op |-> "move", obj |-> "w", ret |-> TRUE]
    /\ UNCHANGED <<file, fclosed, opened, hist, lz, pq, cli>>

\* part_003:1282-1286: the buffer, the bytes and first_frame after a frame
WriteFrameDone(o, res) ==
    /\ wr' = [wr EXCEPT ![o].first_frame = FALSE, ![o].old_image = res.old_image]
    /\ file' = file \o res.bytes
    /\ hist' = Append(hist, [res.rec EXCEPT !.start = Len(file) + 1])
    /\ last' = [op |-> "write_frame", obj |-> o, ret |-> TRUE,
                pre |-> wr[o], pre_len |-> Len(file)]
    /\ UNCHANGED <<fclosed, opened, lz, pq, cli>>

\* Writer::write_frame: part_003:1263-1287
WriteFrame(o, in, junk) ==
    /\ ~Crashed
    /\ wr[o].status = "alive"
    /\ IF WriterClosed(wr[o])
       THEN /\ last' = [op |-> "write_frame", obj |-> o, ret |-> FALSE,
                        pre |-> wr[o], pre_len |-> Len(file)]
            /\ UNCHANGED <<file, fclosed, wr, opened, hist, lz, pq, cli>>
       ELSE WriteFrameDone(o, FrameResult(wr[o], in, junk))

\* write_frame with more pixels than were allocated at open writes past the
\* end of old_image; the process may also be killed there
WriteFrameCrash(o, in) ==
    /\ ~Crashed
    /\ wr[o].status = "alive"
    /\ wr[o].f
    /\ in.width * in.height > wr[o].alloc
    /\ last' = [op |-> "crash", obj |-> o, ret |-> FALSE]
    /\ UNCHANGED <<file, fclosed, wr, opened, hist, lz, pq, cli>>

\* Writer::close: part_003:1289-1296
Close(o) ==
    /\ ~Crashed
    /\ wr[o].status = "alive"
    /\ last' = [op |-> "close", obj |-> o, ret |-> ~WriterClosed(wr[o]),
                pre |-> wr[o], pre_len |-> Len(file)]
    /\ IF WriterClosed(wr[o])
       THEN UNCHANGED <<file, fclosed, wr>>
       ELSE /\ file' = file \o DeleterBytes
            /\ fclosed' = fclosed + 1
            /\ wr' = [wr EXCEPT ![o].f = FALSE, ![o].old_image = NoFrame]
    /\ UNCHANGED <<opened, hist, lz, pq, cli>>

\* ~Writer: the unique_ptr members are destroyed
Drop(o) ==
    /\ ~Crashed
    /\ wr[o].status = "alive"
    /\ last' = [op |-> "drop", obj |-> o, ret |-> TRUE]
    /\ IF wr[o].f
       THEN /\ file' = file \o DeleterBytes
            /\ fclosed' = fclosed + 1
       ELSE UNCHANGED <<file, fclosed>>
    /\ wr' = [wr EXCEPT ![o] = [@ EXCEPT !.status = "dropped", !.f = FALSE,
                                         !.old_image = NoFrame]]
    /\ UNCHANGED <<opened, hist, lz, pq, cli>>

(***************************************************************************)
(* A reference GIF reader, used to state the claims about the emitted      *)
(* bytes: sub-block framing and a variable-width LZW decoder that widens   *)
(* its codes as giflib does (a counter of the codes read since the last    *)
(* clear code) and stops once the image's pixels are all decoded.          *)
(***************************************************************************)
\* The data sub-blocks starting at bytes[pos]: payload, block lengths, the
\* position after the zero-length terminator.
RECURSIVE GifSubBlocks(_, _, _, _)
GifSubBlocks(bytes, pos, payload, lens) ==
    IF pos > Len(bytes)
    THEN [ok |-> FALSE, payload |-> payload, lens |-> lens, next |-> pos]
    ELSE IF bytes[pos] = 0
    THEN [ok |-> TRUE, payload |-> payload, lens |-> lens, next |-> pos + 1]
    ELSE IF pos + bytes[pos] > Len(bytes)
    THEN [ok |-> FALSE, payload |-> payload, lens |-> lens, next |-> pos]
    ELSE GifSubBlocks(bytes, pos + bytes[pos] + 1,
                      payload \o SubSeq(bytes, pos + 1, pos + bytes[pos]),
                      Append(lens, bytes[pos]))

\* bit k (from 0) of a byte sequence, least significant bit of each byte first
GifBit(payload, k) == BitAt(payload[(k \div 8) + 1], k % 8)

\* the code of `width` bits at bit position k
RECURSIVE GifReadCode(_, _, _)
GifReadCode(payload, k, width) ==
    IF width = 0 THEN 0
    ELSE GifBit(payload, k) + 2 * GifReadCode(payload, k + 1, width - 1)

\* the index string of a code
GifString(D, code) == IF code < D.clear THEN <<code>> ELSE D.table[code]

\* one code read by the decoder
GifDecodeStep(D, payload) ==
    LET code == GifReadCode(payload, D.pos, D.size)
        pos == D.pos + D.size
        \* giflib: ++RunningCode > MaxCode1 widens the next code
        rc == D.rc + 1
        size == IF rc > 2 ^ D.size /\ D.size < 12 THEN D.size + 1 ELSE D.size
    IN  IF D.pos + D.size > 8 * Len(payload)
        THEN [D EXCEPT !.status = "truncated"]
        ELSE IF code = D.clear
        THEN [D EXCEPT !.pos = pos, !.size = D.min + 1, !.rc = D.clear + 2,
                       !.prev = -1, !.table = <<>>]
        ELSE IF code = D.clear + 1
        THEN [D EXCEPT !.pos = pos, !.status = "end"]
        ELSE IF D.prev = -1
        THEN IF code < D.clear
             THEN [D EXCEPT !.pos = pos, !.size = size, !.rc = rc, !.prev = code,
                            !.out = Append(D.out, code)]
             ELSE [D EXCEPT !.status = "bad code"]
        ELSE LET known == code < D.clear \/ code \in DOMAIN D.table
                 new == rc - 2
                 p == GifString(D, D.prev)
             IN  IF ~known /\ code # new
                 THEN [D EXCEPT !.status = "bad code"]
                 ELSE LET str == IF known THEN GifString(D, code)
                                 ELSE Append(p, p[1])
                          entry == Append(p, str[1])
                      IN  [D EXCEPT !.pos = pos, !.size = size, !.rc = rc,
                                    !.prev = code,
                                    !.out = D.out \o str,
                                    !.table = IF new < 4096
                                              THEN (new :> entry) @@ D.table
                                              ELSE D.table]

\* one more code, unless the decoder has stopped or has all the pixels
GifDecodeOne(D, payload, npix) ==
    IF D.status # "run" THEN D
    ELSE IF Len(D.out) >= npix /\ D.started THEN [D EXCEPT !.status = "full"]
    ELSE [GifDecodeStep(D, payload) EXCEPT !.started = TRUE]

\* at most n more codes
RECURSIVE GifDecodeLoop(_, _, _, _)
GifDecodeLoop(D, payload, npix, n) ==
    IF n <= 0 \/ D.status # "run" THEN D
    ELSE IF n = 1 THEN GifDecodeOne(D, payload, npix)
    ELSE GifDecodeLoop(GifDecodeLoop(D, payload, npix, n \div 2), payload, npix,
                       n - n \div 2)

\* the indices a decoder gets from a frame's data with the given minimum code size
GifLzwDecode(payload, min_code_size, npix) ==
    GifDecodeLoop([min |-> min_code_size, clear |-> 2 ^ min_code_size,
                   pos |-> 0, size |-> min_code_size + 1,
                   rc |-> 2 ^ min_code_size + 2, prev |-> -1, table |-> <<>>,
                   out |-> <<>>, status |-> "run", started |-> FALSE],
                  payload, npix, 8 * Len(payload) + 2)

\* One frame block at bytes[pos]: graphic control extension, image
\* descriptor, local colour table, LZW data; next is the position after it.
GifFrameAt(bytes, pos) ==
    IF Len(bytes) < pos + 18 THEN [ok |-> FALSE]
    ELSE IF ~(/\ SubSeq(bytes, pos, pos + 2) = <<33, 249, 4>>
              /\ bytes[pos + 7] = 0
              /\ bytes[pos + 8] = 44
              /\ bytes[pos + 17] >= 128) THEN [ok |-> FALSE]
    ELSE LET bit_depth == (bytes[pos + 17] % 8) + 1
             width == bytes[pos + 13] + 256 * bytes[pos + 14]
             height == bytes[pos + 15] + 256 * bytes[pos + 16]
             code_pos == pos + 18 + 3 * 2 ^ bit_depth
         IN  IF Len(bytes) < code_pos THEN [ok |-> FALSE]
             ELSE LET data == GifSubBlocks(bytes, code_pos + 1, <<>>, <<>>)
                  IN  [ok |-> data.ok,
                       start |-> pos,
                       next |-> data.next,
                       flags |-> bytes[pos + 3],
                       delay |-> bytes[pos + 4] + 256 * bytes[pos + 5],
                       transparent |-> bytes[pos + 6],
                       left |-> bytes[pos + 9] + 256 * bytes[pos + 10],
                       top |-> bytes[pos + 11] + 256 * bytes[pos + 12],
                       width |-> width,
                       height |-> height,
                       bit_depth |-> bit_depth,
                       table |-> SubSeq(bytes, pos + 18, code_pos - 1),
                       min_code_size |-> bytes[code_pos],
                       payload |-> data.payload]

\* The frame blocks from bytes[pos] up to the trailer, which must be the
\* last byte.
RECURSIVE GifFrames(_, _, _)
GifFrames(bytes, pos, frames) ==
    IF pos > Len(bytes) THEN [ok |-> FALSE, frames |-> frames]
    ELSE IF bytes[pos] = 59 THEN [ok |-> pos = Len(bytes), frames |-> frames]
    ELSE LET fr == GifFrameAt(bytes, pos)
         IN  IF ~fr.ok THEN [ok |-> FALSE, frames |-> frames]
             ELSE GifFrames(bytes, fr.next, Append(frames, fr))

\* the NETSCAPE2.0 application extension with a loop count
NetscapeBlock(count) ==
    <<33, 255, 11, 78, 69, 84, 83, 67, 65, 80, 69, 50, 46, 48, 3, 1,
      count % 256, count \div 256, 0>>

GifParsed(bytes, gct, loops, body) ==
    [ok |-> body.ok,
     width |-> bytes[7] + 256 * bytes[8],
     height |-> bytes[9] + 256 * bytes[10],
     gct |-> gct,
     loops |-> loops,
     frames |-> body.frames]

\* A whole file: signature, logical screen descriptor, global colour table,
\* at most one looping block, frames, trailer.
GifParse(bytes) ==
    IF Len(bytes) < 13 \/ SubSeq(bytes, 1, 6) # <<71, 73, 70, 56, 57, 97>>
    THEN [ok |-> FALSE]
    ELSE LET packed == bytes[11]
             gct == IF packed >= 128 THEN 3 * 2 ^ ((packed % 8) + 1) ELSE 0
             pos == 14 + gct
             loops == IF /\ Len(bytes) >= pos + 18
                         /\ SubSeq(bytes, pos, pos + 18)
                                = NetscapeBlock(bytes[pos + 16] + 256 * bytes[pos + 17])
                      THEN 1 ELSE 0
         IN  GifParsed(bytes, gct, loops, GifFrames(bytes, pos + 19 * loops, <<>>))

(***************************************************************************)
(* Bounds of the compression specification.                                *)
(***************************************************************************)
\* every index raster of at most this many pixels is compressed ...
MaxLzwLen == 4
\* ... at each of these bit depths
LzwDepths == {1, 2}
\* and, to fill sub-blocks and widen the codes, rasters of this many pixels
LongLen == 600
LongDepths == {1, 2, 8}
\* and, to fill the table of 4096 codes, a raster of this many rows of 256
\* pixels at bit depth 8 in which no pair of neighbours occurs twice
ResetRows == 16

RECURSIVE SeqsUpTo(_, _)
SeqsUpTo(S, n) ==
    IF n = 0 THEN {<<>>}
    ELSE LET shorter == SeqsUpTo(S, n - 1)
         IN  shorter \cup {Append(q, x) : q \in {r \in shorter : Len(r) = n - 1}, x \in S}

\* an irregular raster of n indices below 2^bit_depth
LongRaster(bit_depth, k, n) ==
    [i \in 1..n |-> ((i * i) \div (6 + k) + 3 * i + (i \div 5) * k) % (2 ^ bit_depth)]

\* 256 indices in steps of 1, then 256 in steps of 3, of 5, ...
ResetRaster(n) ==
    [i \in 1..n |-> (((i - 1) % 256) * (2 * ((i - 1) \div 256) + 1)) % 256]

\* <<bit depth, indices, width>>; the rasters of width 1 are compressed a
\* pixel per step
LzwInputs ==
    UNION {{<<d, q, 1>> : q \in SeqsUpTo(0..(2 ^ d - 1), MaxLzwLen) \ {<<>>}} :
             d \in LzwDepths}
    \cup {<<d, LongRaster(d, k, LongLen), 1>> : d \in LongDepths, k \in {1, 2}}
    \cup {<<8, ResetRaster(256 * ResetRows), 256>>}

(***************************************************************************)
(* The state before Writer::open, and of the compression loop when no      *)
(* frame is being compressed step by step.                                 *)
(***************************************************************************)
NoOpen == [state |-> "none"]
NoCall == [op |-> "none"]
LzIdle == [phase |-> "idle"]
PqIdle == [phase |-> "idle"]
NoCli == [phase |-> "none"]
Objects == {"opt", "w"}
NoWriters == [o \in Objects |-> NoWriter]

(***************************************************************************)
(* Spec: the life of a Writer.  Writer::open, then in any order the move   *)
(* out of the optional, write_frame, close and the destructors, on both    *)
(* Writer objects.                                                         *)
(***************************************************************************)
\* at most this many write_frame calls return true
MaxFrames == 2

\* the sizes and delays given to open; the delays and depths given to
\* write_frame
FrameDims == {<<1, 1>>, <<2, 1>>}
Delays == {0, 258}
BitDepths == {1, 2}
ColorA == <<10, 20, 30, 255>>
ColorB == <<200, 100, 50, 255>>
Colors == {ColorA, ColorB}

\* what uninitialised or out-of-bounds memory may hold: a palette colour
\* (col in r, colg in g, colb in b), a split axis, a split value, the int
\* behind the comps array, a pixel
JunkZero == [col |-> 0, colg |-> 0, colb |-> 0, elt |-> 0, split |-> 0, comp |-> 0,
             pix |-> <<0, 0, 0, 0>>]
JunkHigh == [col |-> 255, colg |-> 255, colb |-> 255, elt |-> 3, split |-> 255,
             comp |-> -2000000, pix |-> <<255, 255, 255, 255>>]
JunkMid == [col |-> 11, colg |-> 11, colb |-> 11, elt |-> 200, split |-> 100,
            comp |-> 2000000, pix |-> <<10, 20, 30, 1>>]
Junk == {JunkZero, JunkHigh, JunkMid}
\* the memory holds what an earlier palette of green left there
JunkGreen == [col |-> 0, colg |-> 255, colb |-> 0, elt |-> 1, split |-> 0, comp |-> 0,
              pix |-> <<0, 255, 0, 1>>]

ImagesOf(width, height, colors) == [1..(width * height) -> colors]

InputsOf(dims, colors, delays, depths) ==
    UNION {[image : ImagesOf(d[1], d[2], colors), width : {d[1]}, height : {d[2]},
            delay : delays, bit_depth : depths, dither : BOOLEAN] : d \in dims}

\* the frames of Spec have the size given to open and are not dithered
FrameInputs(width, height) ==
    {in \in InputsOf({<<width, height>>}, Colors, Delays, BitDepths) :
        /\ ~in.dither
        /\ \A i \in 2..(width * height) : in.image[i] = ColorA}

Init ==
    /\ file = <<>>
    /\ fclosed = 0
    /\ wr = NoWriters
    /\ opened = NoOpen
    /\ hist = <<>>
    /\ last = NoCall
    /\ lz = LzIdle
    /\ pq = PqIdle
    /\ cli = NoCli

OpenAny == \E d \in FrameDims, delay \in Delays : Open(d[1], d[2], delay)

WriteFrameAny ==
    /\ opened.state = "ok"
    /\ \E o \in Objects, in \in FrameInputs(opened.width, opened.height),
          junk \in {JunkZero, JunkHigh} :
          /\ wr[o].f => Len(hist) < MaxFrames
          /\ WriteFrame(o, in, junk)

CloseAny == \E o \in Objects : Close(o)

DropAny == \E o \in Objects : Drop(o)

Next ==
    \/ OpenAny
    \/ OpenFails
    \/ MoveOut
    \/ WriteFrameAny
    \/ CloseAny
    \/ DropAny

Spec == Init /\ [][Next]_vars

(***************************************************************************)
(* The Writer's life: the trailer, the release of the FILE, rejected calls *)
(***************************************************************************)
\* every Writer object that was constructed has been destroyed
AllDropped ==
    /\ wr["opt"].status = "dropped"
    /\ wr["w"].status \in {"none", "dropped"}

(* C1: once the FILE of a successful open is closed, the file is 'GIF89a', *)
(* the logical screen descriptor of the opened size with a two-entry       *)
(* global colour table, the NETSCAPE2.0 block when the delay given to open *)
(* is not 0 and no such block otherwise, one frame block per write_frame   *)
(* call that returned true, in call order and each holding that call's     *)
(* delay, size, bit depth and palette indices, and 0x3B as the last byte.  *)
C1_FileStructure ==
    (opened.state = "ok" /\ fclosed = 1) =>
        LET gif == GifParse(file)
        IN  /\ gif.ok
            /\ gif.width = opened.width /\ gif.height = opened.height
            /\ gif.gct = 6
            /\ gif.loops = (IF opened.delay # 0 THEN 1 ELSE 0)
            /\ Len(gif.frames) = Len(hist)
            /\ \A i \in 1..Len(hist) :
                  LET fr == gif.frames[i]
                      in == hist[i].in
                  IN  /\ fr.start = hist[i].start
                      /\ fr.delay = in.delay
                      /\ fr.width = in.width /\ fr.height = in.height
                      /\ fr.bit_depth = in.bit_depth
                      /\ GifLzwDecode(fr.payload, fr.min_code_size,
                                      in.width * in.height).out
                             = IndexRaster(hist[i].after, in.width * in.height)
            /\ file[Len(file)] = 59

C1_Witness ==
    /\ opened.state = "ok"
    /\ opened.delay # 0
    /\ fclosed = 1
    /\ Len(hist) = 2
    /\ hist[1].in.bit_depth # hist[2].in.bit_depth
    /\ Len(GifParse(file).frames) = 2
    /\ GifParse(file).loops = 1

(* C2: the File deleter (0x3B, then fclose) runs at most once, it has run  *)
(* exactly once when every Writer object of a successful open is gone      *)
(* (closed or not, closed twice or not, moved out of the optional or not), *)
(* the byte it wrote is the last of the file, and no step writes to the    *)
(* file once it has run.                                                   *)
C2_TrailerOnce ==
    /\ [](fclosed <= 1)
    /\ []((opened.state = "ok" /\ AllDropped) => fclosed = 1)
    /\ [](fclosed >= 1 => file[Len(file)] = 59)
    /\ [][fclosed >= 1 => file' = file]_vars

C2_Witness ==
    /\ opened.state = "ok"
    /\ wr["opt"].status = "dropped"
    /\ wr["w"].status = "dropped"
    /\ Len(hist) = MaxFrames
    /\ fclosed = 1
    /\ file[Len(file)] = 59

(* C3: a write_frame or close call on a Writer whose f is null returns     *)
(* false, writes no byte and leaves the Writer as it was, first_frame and  *)
(* old_image included.                                                     *)
C3_Rejected ==
    (last.op \in {"write_frame", "close"} /\ ~last.pre.f) =>
        /\ last.ret = FALSE
        /\ Len(file) = last.pre_len
        /\ wr[last.obj] = last.pre

C3_Witness ==
    /\ last.op = "write_frame"
    /\ ~last.pre.f
    /\ last.ret = FALSE
    /\ last.pre.first_frame
    /\ wr[last.obj].first_frame
    /\ wr[last.obj].status = "alive"
    /\ fclosed = 0
    /\ Len(file) = last.pre_len

\* the bytes of the file from position from on, at most n of them
FileFrom(from, n) == SubSeq(file, from, min(Len(file), from + n - 1))

(* C4: each frame starts with 21 F9 04 05, the call's delay as two bytes   *)
(* low byte first, transparency index 0 and a zero; then 2C, left 0, top   *)
(* 0, the call's width and height low byte first, the packed byte 0x80 +   *)
(* bit_depth - 1, and a colour table of 2^bit_depth entries of 3 bytes     *)
(* whose entry 0 is (0,0,0); the byte after the table is the LZW minimum   *)
(* code size.                                                              *)
C4_FrameHeader ==
    \A i \in 1..Len(hist) :
        LET in == hist[i].in
            s == hist[i].start
            table == 3 * 2 ^ in.bit_depth
        IN  /\ FileFrom(s, 8) = <<33, 249, 4, 5, in.delay % 256, in.delay \div 256, 0, 0>>
            /\ FileFrom(s + 8, 10) = <<44, 0, 0, 0, 0, in.width % 256, in.width \div 256,
                                      in.height % 256, in.height \div 256,
                                      128 + in.bit_depth - 1>>
            /\ FileFrom(s + 18, 3) = <<0, 0, 0>>
            /\ Len(file) >= s + 18 + table
            /\ file[s + 18 + table] = in.bit_depth
            /\ hist[i].table = table

C4_Witness ==
    /\ Len(hist) = 2
    /\ hist[2].in.delay = 258
    /\ hist[2].in.bit_depth = 2
    /\ hist[2].in.width = 2
    /\ FileFrom(hist[2].start + 4, 2) = <<2, 1>>
    /\ file[hist[2].start + 17] = 129


(***************************************************************************)
(* SpecFrames: write_frame calls on the Writer in the optional, with       *)
(* frames of any of the sizes, of the size given to open or not.           *)
(***************************************************************************)
QuantDims == {<<1, 1>>, <<2, 1>>, <<1, 2>>}

QuantInputs == InputsOf(QuantDims, Colors, {0}, BitDepths)

OpenFrames == \E d \in QuantDims : Open(d[1], d[2], 0)

WriteFrameFrames ==
    \E in \in QuantInputs, junk \in Junk :
        /\ Len(hist) < MaxFrames
        /\ WriteFrame("opt", in, junk)

WriteFrameCrashFrames ==
    \E in \in QuantInputs :
        /\ Len(hist) < MaxFrames
        /\ WriteFrameCrash("opt", in)

NextFrames == OpenFrames \/ WriteFrameFrames \/ WriteFrameCrashFrames

SpecFrames == Init /\ [][NextFrames]_vars

(***************************************************************************)
(* The frames: the previous-frame buffer and the delta rule                *)
(***************************************************************************)
RGB(pix) == <<pix[1], pix[2], pix[3]>>

\* every frame so far has the size given to open
AllOpenSize ==
    /\ opened.state = "ok"
    /\ \A i \in 1..Len(hist) :
          hist[i].in.width = opened.width /\ hist[i].in.height = opened.height

\* entry ind of a colour table given as bytes
TableEntry(table, ind) == SubSeq(table, 3 * ind + 1, 3 * ind + 3)

\* frame i as a reader of the file sees it: colour table and indices
FrameRead(i) ==
    LET fr == GifFrameAt(file, hist[i].start)
    IN  [table |-> fr.table,
         indices |-> GifLzwDecode(fr.payload, fr.min_code_size,
                                  fr.width * fr.height).out]

(* C8: after each write_frame of the opened size, every pixel of old_image *)
(* holds as 4th byte the index emitted for it, and as RGB the emitted      *)
(* colour table's entry of that index when the index is not 0, the RGB it  *)
(* held before the call when the index is 0.                               *)
C8_BufferIsCanvas ==
    AllOpenSize =>
        /\ Len(hist) >= 1 => wr["opt"].old_image = hist[Len(hist)].after
        /\ \A i \in 1..Len(hist) :
              LET read == FrameRead(i)
              IN  \A p \in 1..(hist[i].in.width * hist[i].in.height) :
                      /\ hist[i].after[p][4] = read.indices[p]
                      /\ RGB(hist[i].after[p]) =
                             IF read.indices[p] # 0
                             THEN TableEntry(read.table, read.indices[p])
                             ELSE RGB(hist[i].before[p])

(* C9: in a frame that has a previous frame, a pixel has index 0 exactly   *)
(* when its target colour (the input RGB when thresholding, the rounded    *)
(* error-diffused colour when dithering, which for the first pixel is the  *)
(* input RGB) equals the RGB old_image held there; such a pixel keeps that *)
(* RGB and passes no error on; so the pixels with a non-zero index are as  *)
(* many as the targets that differ from old_image.                         *)
C9_DeltaRule ==
    AllOpenSize =>
        \A i \in 1..Len(hist) :
            LET h == hist[i]
                n == h.in.width * h.in.height
            IN  ~h.first =>
                  /\ ~h.in.dither => \A p \in 1..n : h.targets[p] = RGB(h.in.image[p])
                  /\ h.in.dither => h.targets[1] = RGB(h.in.image[1])
                  /\ \A p \in 1..n :
                        /\ h.after[p][4] = 0 <=> h.targets[p] = RGB(h.before[p])
                        /\ h.after[p][4] = 0 =>
                              /\ RGB(h.after[p]) = RGB(h.before[p])
                              /\ \A a \in h.adds : a[1] # p - 1
                  /\ Cardinality({p \in 1..n : h.after[p][4] # 0})
                         = Cardinality({p \in 1..n : h.targets[p] # RGB(h.before[p])})

\* a second frame that differs from old_image in exactly one of two pixels
C9_Witness ==
    /\ AllOpenSize
    /\ Len(hist) = 2
    /\ ~hist[2].in.dither
    /\ hist[2].in.width * hist[2].in.height = 2
    /\ RGB(hist[2].in.image[1]) # RGB(hist[2].before[1])
    /\ RGB(hist[2].in.image[2]) = RGB(hist[2].before[2])
    /\ hist[2].after[1][4] # 0
    /\ hist[2].after[2][4] = 0

(***************************************************************************)
(* Determinism of a frame's bytes                                          *)
(***************************************************************************)
\* the Writer as write_frame number i found it
WriterBefore(i) ==
    [status |-> "alive", f |-> TRUE, old_image |-> hist[i].before,
     alloc |-> opened.width * opened.height, first_frame |-> hist[i].first]

\* the bytes write_frame number i appended to the file
FrameBytes(i) ==
    SubSeq(file, hist[i].start,
           IF i < Len(hist) THEN hist[i + 1].start - 1 ELSE Len(file))

(* C11: the bytes a write_frame call emits are a function of the call      *)
(* arguments and the Writer it is called on only: run again on the same    *)
(* Writer with the same arguments, whatever the uninitialised Palette      *)
(* arrays hold that time, the call emits the same bytes.                   *)
C11_Deterministic ==
    \A i \in 1..Len(hist) :
        \A junk \in Junk :
            FrameResult(WriterBefore(i), hist[i].in, junk).bytes = FrameBytes(i)

(***************************************************************************)
(* The bounds of the previous-frame buffer                                 *)
(***************************************************************************)
\* part_003:1276-1283: the pixels of old_image that the quantizer writes and
\* write_lzw_image reads in a call with these arguments (pixel p is the
\* bytes 4(p-1) .. 4(p-1)+3)
BufferTouched(in) == 1..(in.width * in.height)

\* part_003:1210: the pixels of old_image allocated at open
BufferAllocated == 1..(opened.width * opened.height)

(* C12: in every write_frame call, of the size given to open or not, every *)
(* pixel of old_image the call reads or writes lies inside the W*H*4 bytes *)
(* allocated at open, and no call ends the process.                        *)
C12_InBounds ==
    /\ ~Crashed
    /\ \A i \in 1..Len(hist) : BufferTouched(hist[i].in) \subseteq BufferAllocated

(***************************************************************************)
(* Bit depth 1                                                             *)
(***************************************************************************)
\* the colours a reader shows for the pixels of frame i that are not
\* transparent
ShownColors(i) ==
    LET read == FrameRead(i)
    IN  {TableEntry(read.table, read.indices[p]) :
            p \in {q \in 1..(hist[i].in.width * hist[i].in.height) :
                      read.indices[q] # 0}}

\* frame i is a Writer's first frame, at bit depth 1, of two distinct colours
TwoColorFirst(i) ==
    /\ hist[i].first
    /\ hist[i].in.bit_depth = 1
    /\ \E p, q \in 1..(hist[i].in.width * hist[i].in.height) :
          RGB(hist[i].in.image[p]) # RGB(hist[i].in.image[q])

(* C16 as claimed: at bit depth 1 a first frame of two distinct colours is *)
(* shown in two distinct palette colours.                                  *)
C16_TwoColors ==
    \A i \in 1..Len(hist) :
        TwoColorFirst(i) => Cardinality(ShownColors(i)) = 2

(* C16 as amended: at bit depth 1 the colour table has two entries, the    *)
(* transparency slot and one chosen colour; every pixel that is not        *)
(* transparent is emitted with index 1, in a first frame every pixel, so a *)
(* first frame of two distinct colours is shown in one palette colour.     *)
C16_OneColor ==
    \A i \in 1..Len(hist) :
        hist[i].in.bit_depth = 1 =>
            LET read == FrameRead(i)
            IN  /\ Len(read.table) = 3 * 2
                /\ \A p \in 1..(hist[i].in.width * hist[i].in.height) :
                      /\ read.indices[p] \in {0, 1}
                      /\ hist[i].first => read.indices[p] = 1
                /\ Cardinality(ShownColors(i)) <= 1
                /\ TwoColorFirst(i) => Cardinality(ShownColors(i)) = 1

\* a dithered first frame of (10,20,30) and (200,100,50) at bit depth 1
C16_Witness ==
    /\ Len(hist) >= 1
    /\ TwoColorFirst(1)
    /\ hist[1].in.dither
    /\ hist[1].after[1][4] = 1 /\ hist[1].after[2][4] = 1

(***************************************************************************)
(* SpecLzw: write_lzw_image's compression (part_003:1117-1189) applied to  *)
(* a raster of palette indices, one row per step.                          *)
(***************************************************************************)
InitLzw ==
    /\ file = <<>>
    /\ fclosed = 0
    /\ wr = NoWriters
    /\ opened = NoOpen
    /\ hist = <<>>
    /\ last = NoCall
    /\ pq = PqIdle
    /\ cli = NoCli
    /\ \E in \in LzwInputs :
          lz = [phase |-> "start", bit_depth |-> in[1], indices |-> in[2],
                width |-> in[3], pos |-> 1, L |-> <<>>]

LzwBegin ==
    /\ lz.phase = "start"
    /\ lz' = [lz EXCEPT !.phase = "loop", !.L = LzwSetup(lz.bit_depth, <<>>)]
    /\ UNCHANGED <<file, fclosed, wr, opened, hist, last, pq, cli>>

LzwNextRow ==
    /\ lz.phase = "loop"
    /\ lz.pos <= Len(lz.indices)
    /\ lz' = [lz EXCEPT !.L = LzwRow(lz.L, lz.indices, lz.pos, lz.width),
                        !.pos = lz.pos + lz.width]
    /\ UNCHANGED <<file, fclosed, wr, opened, hist, last, pq, cli>>

LzwEnd ==
    /\ lz.phase = "loop"
    /\ lz.pos > Len(lz.indices)
    /\ lz' = [lz EXCEPT !.phase = "done", !.L = LzwFooter(lz.L)]
    /\ UNCHANGED <<file, fclosed, wr, opened, hist, last, pq, cli>>

NextLzw == LzwBegin \/ LzwNextRow \/ LzwEnd

SpecLzw == InitLzw /\ [][NextLzw]_vars

\* the frame's data as the decoder sees it: byte 1 is the minimum code size
LzData == GifSubBlocks(lz.L.stat.out, 2, <<>>, <<>>)

LzDecoded == GifLzwDecode(LzData.payload, lz.L.stat.out[1], Len(lz.indices))

(* C5: the indices a GIF LZW decoder gets back from the emitted sub-blocks
   are exactly the raster that was compressed. *)
C5_RoundTrip ==
    lz.phase = "done" =>
        /\ lz.L.stat.out[1] = lz.bit_depth
        /\ LzData.ok
        /\ LzData.next = Len(lz.L.stat.out) + 1
        /\ LzDecoded.status = "full"
        /\ LzDecoded.out = lz.indices

\* the table of 4096 codes filled up: a clear code in the middle of the data
C5_Witness ==
    /\ lz.phase = "done"
    /\ Len(lz.indices) = 256 * ResetRows
    /\ Cardinality({i \in 1..Len(lz.L.codes) : lz.L.codes[i][1] = 2 ^ lz.bit_depth}) = 3
    /\ LzDecoded.status = "full"
    /\ LzDecoded.out = lz.indices

\* the bit position of each of the codes lo..hi in the frame's data, the
\* first of them being at bit `at`
RECURSIVE CodeOffsets(_, _, _, _)
CodeOffsets(codes, lo, hi, at) ==
    IF lo > hi THEN <<>>
    ELSE IF lo = hi THEN <<at>>
    ELSE LET mid == (lo + hi) \div 2
             left == CodeOffsets(codes, lo, mid, at)
         IN  left \o CodeOffsets(codes, mid + 1, hi, left[Len(left)] + codes[mid][2])

\* those positions, and the position after the last code
LzOffsets ==
    LET n == Len(lz.L.codes)
        offsets == CodeOffsets(lz.L.codes, 1, n, 0)
    IN  Append(offsets, offsets[n] + lz.L.codes[n][2])

\* the bits of the frame's data from position `from` on are all zero
ZeroFrom(payload, from) ==
    \A k \in from..(8 * Len(payload) - 1) : GifBit(payload, k) = 0

(* C6: the code sequence of a frame starts with the clear code at width
   bit_depth + 1 and ends with the clear code at the current width followed
   by the end code at width bit_depth + 1; the end code occurs once and only
   zero padding bits follow it. *)
C6_Framing ==
    lz.phase = "done" /\ Len(lz.indices) >= 1 =>
        LET codes == lz.L.codes
            n == Len(codes)
            clear == 2 ^ lz.bit_depth
            offsets == LzOffsets
            bits == offsets[n + 1]
            data == LzData
            payload == data.payload
        IN  /\ n >= 4
            /\ codes[1] = <<clear, lz.bit_depth + 1>>
            /\ codes[n] = <<clear + 1, lz.bit_depth + 1>>
            /\ codes[n - 1] = <<clear, lz.L.code_size>>
            /\ codes[n - 2][2] = lz.L.code_size
            /\ Cardinality({i \in 1..n : codes[i][1] = clear + 1}) = 1
            \* the emitted bytes hold exactly these codes, then zero bits
            /\ data.ok
            /\ 8 * Len(payload) >= bits
            /\ 8 * Len(payload) < bits + 8
            /\ \A i \in 1..n :
                  GifReadCode(payload, offsets[i], codes[i][2]) = codes[i][1]
            /\ ZeroFrom(payload, bits)

C6_Witness ==
    /\ lz.phase = "done"
    /\ lz.L.code_size > lz.bit_depth + 1
    /\ lz.L.codes[Len(lz.L.codes)] = <<2 ^ lz.bit_depth + 1, lz.bit_depth + 1>>
    /\ lz.L.codes[Len(lz.L.codes) - 1] = <<2 ^ lz.bit_depth, lz.L.code_size>>

\* the sub-blocks written so far while the frame is still being compressed
LzPartial == GifSubBlocks(lz.L.stat.out, 2, <<>>, <<>>)

(* C7: a frame's data is a sequence of sub-blocks of 1..255 payload bytes
   ended by exactly one zero-length block, which is the frame's last byte;
   no zero-length block is written before that and chunk_index never
   exceeds 255. *)
C7_SubBlocks ==
    LET data == LzPartial
    IN  /\ lz.phase \in {"loop", "done"} =>
              /\ lz.L.stat.peak <= 255
              /\ lz.L.stat.chunk_index <= 255
              /\ \A i \in 1..Len(data.lens) : data.lens[i] \in 1..255
        /\ lz.phase = "loop" =>
              \* only full sub-blocks so far, and no terminator
              /\ ~data.ok
              /\ data.next = Len(lz.L.stat.out) + 1
              /\ \A i \in 1..Len(data.lens) : data.lens[i] = 255
        /\ lz.phase = "done" =>
              /\ data.ok
              /\ data.next = Len(lz.L.stat.out) + 1
              /\ lz.L.stat.out[Len(lz.L.stat.out)] = 0
              /\ 8 * Len(data.payload) >= LzOffsets[Len(lz.L.codes) + 1]

C7_Witness ==
    /\ lz.phase = "done"
    /\ Len(LzData.lens) >= 3
    /\ LzData.lens[1] = 255
    /\ lz.L.stat.peak = 255
    /\ LzData.next = Len(lz.L.stat.out) + 1

(* C24: between the pixels of the loop, for every bit depth,                *)
(* bit_depth + 1 <= code_size <= 12 and clear_code + 1 <= max_code <= 4095  *)
(* with max_code < 2^code_size; every code handed to write_code is smaller  *)
(* than 2^width; every dictionary entry that is not 0 lies between          *)
(* clear_code + 2 and max_code.                                             *)
C24_LzwState ==
    lz.phase = "loop" =>
        LET L == lz.L
        IN  /\ L.code_size >= lz.bit_depth + 1
            /\ L.code_size <= 12
            /\ L.max_code >= L.clear_code + 1
            /\ L.max_code <= 4095
            /\ L.max_code < 2 ^ L.code_size
            /\ \A i \in 1..Len(L.codes) :
                  L.codes[i][1] >= 0 /\ L.codes[i][1] < 2 ^ L.codes[i][2]
            /\ \A e \in DOMAIN L.codetree :
                  L.codetree[e] >= L.clear_code + 2 /\ L.codetree[e] <= L.max_code

\* the dictionary filled up at twelve bits, was cleared and has entries again
C24_Witness ==
    /\ lz.phase = "loop"
    /\ \E i \in 2..Len(lz.L.codes) : lz.L.codes[i] = <<lz.L.clear_code, 12>>
    /\ lz.L.code_size < 12
    /\ DOMAIN lz.L.codetree # {}

\* the frame's data is n sub-blocks of 255 bytes and a last shorter one
LzBlocks == (Len(LzData.payload) + 254) \div 255

(* C23: the payloads of a frame's sub-blocks, taken together, hold the bits *)
(* of the codes handed to write_code, each code's low `length` bits from    *)
(* bit 0 up, packed into bytes from bit 0 up, then zero bits up to the end  *)
(* of the last byte; write_chunk never runs while the partial byte holds    *)
(* bits.                                                                    *)
C23_BitPacking ==
    /\ lz.phase \in {"loop", "done"} => lz.L.stat.torn = 0
    /\ lz.phase = "done" =>
          LET codes == lz.L.codes
              n == Len(codes)
              offsets == LzOffsets
              bits == offsets[n + 1]
              data == LzData
              payload == data.payload
          IN  /\ data.ok
              /\ Len(payload) = (bits + 7) \div 8
              /\ \A i \in 1..n : \A j \in 0..(codes[i][2] - 1) :
                    GifBit(payload, offsets[i] + j) = BitAt(codes[i][1], j)
              /\ \A k \in bits..(8 * Len(payload) - 1) : GifBit(payload, k) = 0

\* a frame of several sub-blocks with a code that lies across the end of the
\* first one
C23_Witness ==
    /\ lz.phase = "done"
    /\ LzBlocks >= 2
    /\ lz.L.stat.torn = 0
    /\ \E i \in 1..Len(lz.L.codes) :
         LzOffsets[i] < 255 * 8 /\ LzOffsets[i] + lz.L.codes[i][2] > 255 * 8

(***************************************************************************)
(* SpecReset: the loop of part_003:1135-1177 a pixel at a step on the last *)
(* rows of the raster that fills the dictionary, from the state the loop   *)
(* is in after the rows before them, then the footer.                      *)
(***************************************************************************)
\* the pixels compressed before the first step
ResetFrom == 256 * (ResetRows - 2)

InitReset ==
    /\ file = <<>>
    /\ fclosed = 0
    /\ wr = NoWriters
    /\ opened = NoOpen
    /\ hist = <<>>
    /\ last = NoCall
    /\ pq = PqIdle
    /\ cli = NoCli
    /\ LET indices == ResetRaster(256 * ResetRows)
       IN  lz = [phase |-> "loop", bit_depth |-> 8, indices |-> indices, width |-> 1,
                 pos |-> ResetFrom + 1,
                 L |-> LzwRow(LzwSetup(8, <<>>), indices, 1, ResetFrom)]

NextReset == LzwNextRow \/ LzwEnd

SpecReset == InitReset /\ [][NextReset]_vars

\* this pixel ends a run and the entry made for it is number 4095
FillsDictionary ==
    /\ lz.phase = "loop" /\ lz'.phase = "loop"
    /\ lz.L.max_code = 4094
    /\ Len(lz'.L.codes) > Len(lz.L.codes)

\* this pixel ends a run and a code is written for it
EndsRun ==
    /\ lz.phase = "loop" /\ lz'.phase = "loop"
    /\ Len(lz'.L.codes) > Len(lz.L.codes)

(* C25: the pixel whose new dictionary entry is number 4095 has the run's   *)
(* code and then the clear code written at twelve bits, and leaves the      *)
(* dictionary empty, code_size at bit_depth + 1, max_code at clear_code + 1 *)
(* and the run restarted with that pixel; every code written for a run is a *)
(* literal or an entry of the dictionary as it is then, so none made before *)
(* the clear is used after it; and a decoder gets the raster back.          *)
C25_DictionaryReset ==
    /\ [][FillsDictionary =>
            /\ lz.L.code_size = 12
            /\ lz'.L.codes = lz.L.codes \o <<<<lz.L.curr_code, 12>>,
                                              <<lz.L.clear_code, 12>>>>
            /\ lz'.L.codetree = <<>>
            /\ lz'.L.code_size = lz.bit_depth + 1
            /\ lz'.L.max_code = lz.L.clear_code + 1
            /\ lz'.L.curr_code = lz.indices[lz.pos]]_vars
    /\ [][EndsRun =>
            LET code == lz'.L.codes[Len(lz.L.codes) + 1][1]
            IN  \/ code \in 0..(lz.L.clear_code - 1)
                \/ \E e \in DOMAIN lz.L.codetree : lz.L.codetree[e] = code]_vars
    /\ [](lz.phase = "done" =>
            LzDecoded.status = "full" /\ LzDecoded.out = lz.indices)

\* right after the reset: the clear code is the last code written, the
\* dictionary is empty and the run is the pixel that filled it
C25_Witness ==
    /\ lz.phase = "loop"
    /\ Len(lz.L.codes) > 1
    /\ lz.L.codes[Len(lz.L.codes)] = <<lz.L.clear_code, 12>>
    /\ lz.L.codetree = <<>>
    /\ lz.L.max_code = lz.L.clear_code + 1
    /\ lz.L.curr_code = lz.indices[lz.pos - 1]

(***************************************************************************)
(* SpecPalette: a palette is built from a frame (part_003:864-889), then a *)
(* colour is looked up in it (part_002:258-302).                           *)
(***************************************************************************)
PalDims == {<<1, 1>>, <<2, 1>>, <<3, 1>>}
PalColors == Colors \cup {<<0, 0, 0, 255>>}
PalDepths == {1, 2, 3, 8}
\* the channel values of the colours looked up; dithering searches for
\* values above 255 too
QueryValues == {0, 128, 255, 300}
\* the previous frames: none, one of the frame's size holding ColorA
LastFrames(num_pixels) == {NoFrame, [i \in 1..num_pixels |-> <<10, 20, 30, 1>>]}

InitPalette ==
    /\ file = <<>>
    /\ fclosed = 0
    /\ wr = NoWriters
    /\ opened = NoOpen
    /\ hist = <<>>
    /\ last = NoCall
    /\ lz = LzIdle
    /\ pq = PqIdle
    /\ cli = NoCli

PaletteBuild ==
    /\ pq.phase = "idle"
    /\ \E d \in PalDims, bit_depth \in PalDepths, dither \in BOOLEAN,
          junk \in Junk \cup {JunkGreen} :
         \E image \in ImagesOf(d[1], d[2], PalColors),
            last_frame \in LastFrames(d[1] * d[2]) :
            pq' = [phase |-> "built", bit_depth |-> bit_depth, junk |-> junk,
                   num_pixels |-> d[1] * d[2],
                   pal |-> Palette(last_frame, image, d[1], d[2], bit_depth, dither,
                                   junk)]
    /\ UNCHANGED <<file, fclosed, wr, opened, hist, last, lz, cli>>

PaletteQuery ==
    /\ pq.phase = "built"
    /\ \E r \in QueryValues, g \in {0, 255}, b \in {0, 300},
          start \in {ThresholdStart, DitherStart} :
          pq' = [phase |-> "queried", bit_depth |-> pq.bit_depth, junk |-> pq.junk,
                 num_pixels |-> pq.num_pixels,
                 entry0 |-> <<pq.pal.r[0], pq.pal.g[0], pq.pal.b[0]>>,
                 set_cols |-> pq.pal.set_cols,
                 pal |-> pq.pal,
                 query |-> <<r, g, b>>,
                 start |-> start,
                 found |-> get_closest_pallete_color(pq.pal, r, g, b, start, 1,
                                                     pq.junk)]
    /\ UNCHANGED <<file, fclosed, wr, opened, hist, last, lz, cli>>

NextPalette == PaletteBuild \/ PaletteQuery

SpecPalette == InitPalette /\ [][NextPalette]_vars

(* C10: entry 0 of every palette is (0,0,0), and the search from the root  *)
(* with best_diff = 1000000 and best_ind = 0 or 1 ends on an index between *)
(* 1 and 2^bit_depth - 1.                                                  *)
C10_NeverTransparent ==
    /\ pq.phase = "built" => pq.pal.r[0] = 0 /\ pq.pal.g[0] = 0 /\ pq.pal.b[0] = 0
    /\ pq.phase = "queried" =>
          /\ pq.entry0 = <<0, 0, 0>>
          /\ pq.found[1] \in 1..(2 ^ pq.bit_depth - 1)

\* a search from best_ind = 0 in a palette of 256 entries most of which were
\* never written
C10_Witness ==
    /\ pq.phase = "queried"
    /\ pq.bit_depth = 8
    /\ pq.start = DitherStart
    /\ pq.num_pixels = 1
    /\ pq.found[1] >= 1

(***************************************************************************)
(* The search against a scan of the whole table                            *)
(***************************************************************************)
\* |dr| + |dg| + |db| between a colour and entry i of a palette
L1Distance(pal, i, c) ==
    abs(c[1] - pal.r[i]) + abs(c[2] - pal.g[i]) + abs(c[3] - pal.b[i])

\* the smallest distance of a colour to the entries 1..2^bit_depth - 1
ScanBest(pal, c) ==
    SetMin({L1Distance(pal, i, c) : i \in 1..(2 ^ pal.bit_depth - 1)})

\* the colour looked up is one a frame can hold
QueryIsRGB == \A k \in 1..3 : pq.query[k] \in 0..255

(* C19: for every palette the constructor builds and every colour with     *)
(* components in 0..255, the index the search returns has the smallest     *)
(* distance |dr|+|dg|+|db| to the colour among the entries                 *)
(* 1..2^bit_depth - 1, the best_diff of a scan of the whole table.         *)
C19_SearchExact ==
    (pq.phase = "queried" /\ QueryIsRGB) =>
        /\ pq.found[2] = ScanBest(pq.pal, pq.query)
        /\ L1Distance(pq.pal, pq.found[1], pq.query) = ScanBest(pq.pal, pq.query)

(***************************************************************************)
(* The nodes of the tree                                                   *)
(***************************************************************************)
\* the nodes the constructor has written: those split assigned and the one
\* above the transparency leaf (part_003:884-886)
AssignedNodes(pal) == pal.set_nodes \cup {2 ^ (pal.bit_depth - 1)}

(* C20: in every palette the constructor has built, every internal node n, *)
(* 1 <= n < 2^bit_depth, has a split value written by the constructor and  *)
(* a split axis in {0, 1, 2}, so that the search reads no unassigned node  *)
(* and indexes comps inside 0..2, also when the training set has fewer     *)
(* pixels than the palette has leaves, or none.                            *)
C20_NodesAssigned ==
    pq.phase \in {"built", "queried"} =>
        \A n \in 1..(2 ^ pq.bit_depth - 1) :
            /\ n \in AssignedNodes(pq.pal)
            /\ pq.pal.tree_split_elt[n] \in {0, 1, 2}

(***************************************************************************)
(* SpecDepth: whole frames at the smallest and the largest bit depth, as   *)
(* the command-line tool writes images of one size: every frame has the    *)
(* size and the delay given to open.  The images are of one colour, or of  *)
(* one colour with the first pixel of another.                             *)
(***************************************************************************)
DepthDims == {<<1, 1>>, <<2, 2>>}
DepthDelays == {0, 5}
DepthDepths == {1, 8}
Black == <<0, 0, 0, 255>>

\* every pixel has the same RGB
IsSolid(image) == \A p \in 1..Len(image) : RGB(image[p]) = RGB(image[1])

DepthImages(width, height) ==
    {image \in ImagesOf(width, height, Colors \cup {Black}) :
        \/ IsSolid(image)
        \/ /\ image[1] = ColorB
           /\ \A p \in 2..(width * height) : image[p] = ColorA}

DepthInputs ==
    [image : DepthImages(opened.width, opened.height), width : {opened.width},
     height : {opened.height}, delay : {opened.delay}, bit_depth : DepthDepths,
     dither : BOOLEAN]

OpenDepth == \E d \in DepthDims, delay \in DepthDelays : Open(d[1], d[2], delay)

WriteFrameDepth ==
    /\ opened.state = "ok"
    /\ Len(hist) < MaxFrames
    /\ \E in \in DepthInputs, junk \in Junk : WriteFrame("opt", in, junk)

NextDepth == OpenDepth \/ WriteFrameDepth

SpecDepth == Init /\ [][NextDepth]_vars

(***************************************************************************)
(* The first frame of a Writer                                             *)
(***************************************************************************)
(* C13: in the first frame a Writer writes, thresholded or dithered, at    *)
(* bit depth 1 or 8, no pixel is emitted with palette index 0: neither the *)
(* index stored in old_image nor the index a reader decodes from the file. *)
C13_FirstFrameOpaque ==
    \A i \in 1..Len(hist) :
        hist[i].first =>
            LET indices == FrameRead(i).indices
            IN  \A p \in 1..(hist[i].in.width * hist[i].in.height) :
                    /\ hist[i].after[p][4] # 0
                    /\ indices[p] # 0

\* a dithered first frame of two colours at bit depth 8, and a thresholded
\* one at bit depth 1
C13_Witness ==
    /\ Len(hist) = 2
    /\ hist[1].first
    /\ hist[1].in.dither
    /\ hist[1].in.bit_depth = 8
    /\ ~IsSolid(hist[1].in.image)
    /\ \A p \in 1..4 : hist[1].after[p][4] # 0

(***************************************************************************)
(* An image of one colour                                                  *)
(***************************************************************************)
\* The canvas a reader shows after the first k frames.  Every frame covers
\* the canvas and asks to be left in place; a pixel with the frame's
\* transparent index keeps what the canvas held, <<>> when nothing was
\* drawn there yet.
RECURSIVE GifCanvas(_)
GifCanvas(k) ==
    IF k = 0 THEN [p \in 1..(opened.width * opened.height) |-> <<>>]
    ELSE LET prev == GifCanvas(k - 1)
             fr == GifFrameAt(file, hist[k].start)
             read == FrameRead(k)
         IN  [p \in 1..(opened.width * opened.height) |->
                 IF fr.flags % 2 = 1 /\ read.indices[p] = fr.transparent
                 THEN prev[p]
                 ELSE TableEntry(read.table, read.indices[p])]

\* frames i and i + 1 are the same image of one colour, thresholded at bit
\* depth 8
SolidTwice(i) ==
    /\ i + 1 <= Len(hist)
    /\ hist[i].in.bit_depth = 8 /\ hist[i + 1].in.bit_depth = 8
    /\ ~hist[i].in.dither /\ ~hist[i + 1].in.dither
    /\ IsSolid(hist[i].in.image)
    /\ hist[i + 1].in.image = hist[i].in.image

(* C14: when an image of one colour is written twice in a row, not         *)
(* dithered, at bit depth 8, a reader decodes index 0 for every pixel of   *)
(* the second frame, and the canvas it shows equals the image after the    *)
(* first and after the second frame.                                       *)
C14_SolidTwice ==
    \A i \in 1..Len(hist) :
        SolidTwice(i) =>
            LET second == FrameRead(i + 1).indices
                canvas1 == GifCanvas(i)
                canvas2 == GifCanvas(i + 1)
            IN  \A p \in 1..(opened.width * opened.height) :
                    /\ second[p] = 0
                    /\ canvas1[p] = RGB(hist[i].in.image[p])
                    /\ canvas2[p] = RGB(hist[i].in.image[p])

\* the 2 x 2 image of (10,20,30) written twice
C14_Witness ==
    /\ SolidTwice(1)
    /\ hist[1].in.width = 2 /\ hist[1].in.height = 2
    /\ hist[1].in.image[1] = ColorA
    /\ \A p \in 1..4 : hist[2].after[p][4] = 0

\* the text NETSCAPE2.0 occurs in the bytes
HasNetscape(bytes) ==
    \E k \in 1..(Len(bytes) - 10) :
        SubSeq(bytes, k, k + 10) = <<78, 69, 84, 83, 67, 65, 80, 69, 50, 46, 48>>

\* the only frame so far is an image of one colour, thresholded at bit depth
\* 8, in a file opened with delay 0
SolidSingle ==
    /\ Len(hist) = 1
    /\ opened.delay = 0
    /\ hist[1].in.bit_depth = 8
    /\ ~hist[1].in.dither
    /\ IsSolid(hist[1].in.image)

(* C15: after a single frame of one colour c, thresholded at bit depth 8   *)
(* in a file opened with delay 0, the frame's local colour table has 256   *)
(* entries of which entry 1 is c, the file holds no NETSCAPE2.0 block, and *)
(* it holds exactly one image block.                                       *)
C15_SolidTable ==
    SolidSingle =>
        LET body == GifFrames(file \o DeleterBytes, Len(OpenBytes(1, 1, 0)) + 1, <<>>)
        IN  /\ body.ok
            /\ Len(body.frames) = 1
            /\ Len(body.frames[1].table) = 3 * 256
            /\ TableEntry(body.frames[1].table, 1) = RGB(hist[1].in.image[1])
            /\ ~HasNetscape(file)

(***************************************************************************)
(* SpecOpen: the header of the file.  Writer::open with a canvas up to two *)
(* bytes wide or high, then frames of one pixel with a delay of their own, *)
(* then close.                                                             *)
(***************************************************************************)
HeaderDims == {<<1, 1>>, <<258, 1>>, <<1, 513>>}

HeaderInputs ==
    {in \in InputsOf({<<1, 1>>}, Colors, Delays, BitDepths) : ~in.dither}

OpenHeader == \E d \in HeaderDims, delay \in Delays : Open(d[1], d[2], delay)

WriteFrameHeader ==
    /\ opened.state = "ok"
    /\ wr["opt"].f => Len(hist) < MaxFrames
    /\ \E in \in HeaderInputs : WriteFrame("opt", in, JunkHigh)

CloseHeader == Close("opt")

NextOpen == OpenHeader \/ WriteFrameHeader \/ CloseHeader

SpecOpen == Init /\ [][NextOpen]_vars

\* the number of places where the text NETSCAPE2.0 starts
NetscapeCount(bytes) ==
    Cardinality({k \in 1..(Len(bytes) - 10) :
        SubSeq(bytes, k, k + 10) = <<78, 69, 84, 83, 67, 65, 80, 69, 50, 46, 48>>})

\* the header as the claim spells it
HeaderBytes(width, height, delay) ==
    <<71, 73, 70, 56, 57, 97,
      width % 256, width \div 256, height % 256, height \div 256,
      240, 0, 0,
      0, 0, 0, 0, 0, 0>>
    \o (IF delay # 0
        THEN <<33, 255, 11, 78, 69, 84, 83, 67, 65, 80, 69, 50, 46, 48,
               3, 1, 0, 0, 0>>
        ELSE <<>>)

(* C17: open(W, H, delay) writes exactly 'GIF89a', W and H as u16 low byte *)
(* first, 0xF0 0 0, six zero bytes and, if and only if delay is not 0, the *)
(* 19 bytes of the NETSCAPE2.0 block; these bytes stay the beginning of    *)
(* the file, what follows them is a frame or the trailer, and the file     *)
(* holds the text NETSCAPE2.0 once if open's delay is not 0 and never      *)
(* otherwise, whatever the delays of the write_frame calls.                *)
C17_Header ==
    opened.state = "ok" =>
        LET header == HeaderBytes(opened.width, opened.height, opened.delay)
            n == Len(header)
        IN  /\ n = IF opened.delay # 0 THEN 38 ELSE 19
            /\ last.op = "open" => file = header
            /\ Len(file) >= n
            /\ SubSeq(file, 1, n) = header
            /\ Len(file) > n =>
                  \/ file[n + 1] = 59
                  \/ Len(file) > n + 1 /\ file[n + 1] = 33 /\ file[n + 2] = 249
            /\ NetscapeCount(file) = IF opened.delay # 0 THEN 1 ELSE 0

\* a file opened with delay 0, 258 pixels wide, after a frame with delay 258
\* and a frame with delay 0
C17_Witness ==
    /\ opened.state = "ok"
    /\ opened.delay = 0
    /\ opened.width = 258
    /\ Len(hist) = 2
    /\ hist[1].in.delay = 258
    /\ hist[2].in.delay = 0
    /\ NetscapeCount(file) = 0

(***************************************************************************)
(* SpecMain: the command-line tool, part_000:95-196.  main parses the      *)
(* options, opens the output with the size of the first image, moves the   *)
(* Writer out of the optional, writes one frame per input image and        *)
(* returns, which destroys the Writer.                                     *)
(***************************************************************************)
MainDims == {<<1, 1>>, <<2, 1>>}
MainDelays == {0, 2}

\* part_000:170, 179, 196: the dither argument main passes for its flag
MainDither(dither) == ~dither

\* part_000:101-113 and 125: the options after CLI11_PARSE
MainParse ==
    /\ cli.phase = "none"
    /\ \E dither \in BOOLEAN, delay \in MainDelays, bit_depth \in BitDepths :
          cli' = [phase |-> "parsed", dither |-> dither, delay |-> delay,
                  bit_depth |-> bit_depth]
    /\ UNCHANGED <<file, fclosed, wr, opened, hist, last, lz, pq>>

\* part_000:169-170: Writer::open with the size of the first image
MainOpen ==
    /\ cli.phase = "parsed"
    /\ \E d \in MainDims : Open(d[1], d[2], cli.delay)

\* part_000:171-174: the output file cannot be opened
MainOpenFails ==
    /\ cli.phase = "parsed"
    /\ OpenFails

\* part_000:176
MainMove ==
    /\ cli.phase = "parsed"
    /\ MoveOut

\* part_000:179 and 196: one write_frame call per input image
MainWriteFrame ==
    /\ cli.phase = "parsed"
    /\ wr["w"].status = "alive"
    /\ Len(hist) < MaxFrames
    /\ \E image \in ImagesOf(opened.width, opened.height, Colors), junk \in Junk :
          WriteFrame("w", [image |-> image, width |-> opened.width,
                           height |-> opened.height, delay |-> cli.delay,
                           bit_depth |-> cli.bit_depth,
                           dither |-> MainDither(cli.dither)], junk)

\* main returns: writer is destroyed
MainReturn ==
    /\ cli.phase = "parsed"
    /\ Len(hist) >= 1
    /\ Drop("w")

NextMain ==
    \/ MainParse
    \/ MainOpen
    \/ MainOpenFails
    \/ MainMove
    \/ MainWriteFrame
    \/ MainReturn

SpecMain == Init /\ [][NextMain]_vars

(* C18: every frame the command-line tool writes is quantized by           *)
(* dither_image when --dither was given and by threshold_image when it     *)
(* was not.                                                                *)
C18_DitherFlag ==
    cli.phase = "parsed" =>
        \A i \in 1..Len(hist) : hist[i].in.dither = cli.dither

(***************************************************************************)
(* SpecSelect: partition_by_median (part_002:219-233) run one activation   *)
(* at a step on every image of at most MaxSelectLen pixels drawn from      *)
(* SelectPixels, every axis and every target position.  Of the two         *)
(* recursive calls of an activation at most one is made and nothing        *)
(* follows it, so the activations form a chain: pq holds the image and the *)
(* arguments of the current one.  depth counts the activations entered,    *)
(* parts those that ran partition, touched the positions (from 0) read or  *)
(* written so far.                                                         *)
(***************************************************************************)
MaxSelectLen == 5

\* pixels whose three channels order them differently, with equal values
SelectPixels == {<<1, 5, 9, 7>>, <<2, 5, 3, 8>>, <<1, 6, 9, 9>>, <<3, 4, 9, 1>>}

\* eight pixels whose middle one is the smallest of every range selected on the
\* way to position 0
SelectChain ==
    LET reds == <<0, 2, 4, 6, 7, 1, 5, 3>>
    IN  [i \in 1..8 |-> <<reds[i], 0, 0, 255>>]

SelectInputs ==
    {<<image, com, k>> : image \in SeqsUpTo(SelectPixels, MaxSelectLen) \ {<<>>},
                         com \in 0..2, k \in 0..(MaxSelectLen - 1)}
    \cup {<<SelectChain, 0, k>> : k \in {0, 7}}

\* the outer call partition_by_median(image, 0, n, com, k) of one of the inputs
SelectStart(inputs) ==
    /\ file = <<>>
    /\ fclosed = 0
    /\ wr = NoWriters
    /\ opened = NoOpen
    /\ hist = <<>>
    /\ last = NoCall
    /\ lz = LzIdle
    /\ cli = NoCli
    /\ \E in \in inputs :
         /\ in[3] < Len(in[1])
         /\ pq = [phase |-> "call", input |-> in[1], image |-> in[1], left |-> 0,
                  right |-> Len(in[1]), com |-> in[2], needed_center |-> in[3],
                  depth |-> 1, parts |-> 0, touched |-> {}]

InitSelect == SelectStart(SelectInputs)

\* part_002:191-215: the positions partition reads or writes: the pivot, the
\* last one, every i of the loop, and the store index, which never passes i
PartitionTouched(left, right, pivot_index, store_index) ==
    {pivot_index, right - 1, store_index} \cup left..(right - 2)

\* a recursive call that keeps the pivot in its range
SelectRange_Mutant(left, right, pivot_index, needed_center) ==
    IF pivot_index > needed_center THEN <<left, pivot_index + 1>>
    ELSE IF pivot_index < needed_center THEN <<pivot_index, right>>
    ELSE <<>>

\* part_002:226-231: the range of the recursive call, <<>> when there is none
SelectRange(left, right, pivot_index, needed_center) ==
    IF pivot_index > needed_center THEN <<left, pivot_index>>
    ELSE IF pivot_index < needed_center THEN <<pivot_index + 1, right>>
    ELSE <<>>

\* part_002:222-232: an activation that partitions, then calls itself on one
\* side or returns
SelectPartition ==
    /\ pq.phase = "call"
    /\ pq.left < pq.right - 1
    /\ LET middle == pq.left + (pq.right - pq.left) \div 2
           p == partition(pq.image, pq.left, pq.right, pq.com, middle)
           pivot_index == p.store_index
           t == pq.touched \cup PartitionTouched(pq.left, pq.right, middle, pivot_index)
           range == SelectRange(pq.left, pq.right, pivot_index, pq.needed_center)
       IN  pq' = IF range # <<>>
                 THEN [pq EXCEPT !.image = p.image, !.left = range[1],
                                 !.right = range[2], !.depth = @ + 1,
                                 !.parts = @ + 1, !.touched = t]
                 ELSE [pq EXCEPT !.image = p.image, !.phase = "done",
                                 !.parts = @ + 1, !.touched = t]
    /\ UNCHANGED <<file, fclosed, wr, opened, hist, last, lz, cli>>

\* part_002:222: an activation on a range of one pixel returns at once
SelectReturn ==
    /\ pq.phase = "call"
    /\ ~(pq.left < pq.right - 1)
    /\ pq' = [pq EXCEPT !.phase = "done"]
    /\ UNCHANGED <<file, fclosed, wr, opened, hist, last, lz, cli>>

NextSelect == SelectPartition \/ SelectReturn

SpecSelect == InitSelect /\ [][NextSelect]_vars

\* the pixels of an image as a bag: how often each one occurs
PixelCount(image, p) == Cardinality({i \in 1..Len(image) : image[i] = p})

(* C21: when partition_by_median(image, 0, n, axis, k) has returned, every  *)
(* pixel below position k has an axis value <= the one at k and every pixel *)
(* above k one >= it, the image holds the same whole pixels as before, each *)
(* as often, and only positions 0..n-1 were read or written; the result is  *)
(* the one the palette builder's call computes.                             *)
C21_Quickselect ==
    pq.phase = "done" =>
        LET n == Len(pq.input)
            k == pq.needed_center
            v(i) == pq.image[i + 1][pq.com + 1]
        IN  /\ \A i \in 0..(n - 1) : (i < k => v(i) <= v(k)) /\ (i > k => v(i) >= v(k))
            /\ Len(pq.image) = n
            /\ \A i \in 1..n : PixelCount(pq.image, pq.input[i])
                                    = PixelCount(pq.input, pq.input[i])
            /\ pq.touched \subseteq 0..(n - 1)
            /\ pq.image = partition_by_median(pq.input, 0, n, pq.com, k)

\* a run on equal axis values that partitioned more than once and moved pixels
C21_Witness ==
    /\ pq.phase = "done"
    /\ pq.parts >= 2
    /\ pq.image # pq.input
    /\ \E i, j \in 1..Len(pq.input) :
         i # j /\ pq.input[i][pq.com + 1] = pq.input[j][pq.com + 1]
                /\ pq.input[i] # pq.input[j]

(***************************************************************************)
(* SpecSelectFair: the same calls on the images of at most MaxFairLen      *)
(* pixels and on SelectChain; a running call takes its next step.          *)
(***************************************************************************)
MaxFairLen == 4

SelectFairInputs ==
    {in \in SelectInputs : Len(in[1]) <= MaxFairLen \/ in[1] = SelectChain}

InitSelectFair == SelectStart(SelectFairInputs)

SpecSelectFair == InitSelectFair /\ [][NextSelect]_vars /\ WF_vars(NextSelect)

\* log2(n) rounded up
CeilLog2(n) == CHOOSE d \in 0..n : 2 ^ d >= n /\ \A e \in 0..(d - 1) : 2 ^ e < n

(* C29, as stated: partition_by_median on n >= 1 pixels never nests more    *)
(* than log2(n), rounded up, recursive calls under the outer one.           *)
C29_LogDepth ==
    pq.phase \in {"call", "done"} => pq.depth - 1 <= CeilLog2(Len(pq.input))

(* C29, amended: partition_by_median returns on every input of n >= 1       *)
(* pixels and every target position, inputs with equal axis values          *)
(* included, and never nests more than n - 1 recursive calls under the      *)
(* outer one.                                                               *)
C29_Terminates ==
    /\ <>(pq.phase = "done")
    /\ [](pq.phase \in {"call", "done"} => pq.depth - 1 <= Len(pq.input) - 1)

\* a returned run on three or more pixels of one axis value that recursed
C29_Witness ==
    /\ pq.phase = "done"
    /\ Len(pq.input) >= 3
    /\ pq.depth >= 3
    /\ \A i \in 1..Len(pq.input) : pq.input[i][pq.com + 1] = pq.input[1][pq.com + 1]

(***************************************************************************)
(* SpecSplit: the palette builder's split (part_002:306-376) is called as  *)
(* the constructor calls it (part_003:876-882) on every image of at most   *)
(* MaxSplitLen pixels drawn from SplitPixels, and its choice of the axis   *)
(* (part_002:358-360) is made for every triple of ranges in AxisRanges.    *)
(***************************************************************************)
MaxSplitLen == 4
SplitDepths == {1, 2, 3}

\* channel sums of these are odd and even, so that rounding shows
SplitPixels == {<<0, 0, 0, 255>>, <<10, 20, 30, 255>>, <<201, 100, 51, 255>>,
                <<255, 255, 254, 255>>}

\* six pixels, two different ones for each of the three leaves of bit depth 2
SplitLong ==
    <<<<201, 100, 51, 255>>, <<0, 0, 0, 255>>, <<255, 255, 254, 255>>,
      <<10, 20, 30, 255>>, <<201, 100, 51, 255>>, <<10, 20, 30, 255>>>>

SplitImages == (SeqsUpTo(SplitPixels, MaxSplitLen) \ {<<>>}) \cup {SplitLong}

\* the range of a channel is between 0 and 255 (part_002:143-165)
AxisRanges == {0, 1, 2, 254, 255}

\* part_002:306-376: the pixels each base case of split is given, as a
\* sequence of [leaf, pixels], in the order the base cases are reached
RECURSIVE SplitLeaves(_, _, _, _, _)
SplitLeaves(image, first_elt, last_elt, split_elt, split_dist) ==
    LET num_pixels == Len(image)
    IN  IF last_elt <= first_elt \/ num_pixels = 0 THEN <<>>
        ELSE IF last_elt = first_elt + 1
        THEN <<[leaf |-> first_elt, pixels |-> image]>>
        ELSE LET split_com == SplitAxis(find_largest_range(image))
                 sub_pixels_a ==
                     (num_pixels * (split_elt - first_elt)) \div (last_elt - first_elt)
                 sorted == partition_by_median(image, 0, num_pixels, split_com,
                                               sub_pixels_a)
             IN  SplitLeaves(SubSeq(sorted, 1, sub_pixels_a), first_elt, split_elt,
                             split_elt - split_dist, split_dist \div 2)
                 \o SplitLeaves(SubSeq(sorted, sub_pixels_a + 1, num_pixels),
                                split_elt, last_elt, split_elt + split_dist,
                                split_dist \div 2)

InitSplit ==
    /\ file = <<>>
    /\ fclosed = 0
    /\ wr = NoWriters
    /\ opened = NoOpen
    /\ hist = <<>>
    /\ last = NoCall
    /\ lz = LzIdle
    /\ cli = NoCli
    /\ \/ \E image \in SplitImages,
             bit_depth \in SplitDepths, dither \in BOOLEAN, junk \in Junk :
             pq = [phase |-> "split-call", image |-> image, bit_depth |-> bit_depth,
                   dither |-> dither, junk |-> junk]
       \/ \E r_range \in AxisRanges, g_range \in AxisRanges, b_range \in AxisRanges :
             pq = [phase |-> "axis-call", ranges |-> <<r_range, g_range, b_range>>]

\* part_003:876-882: split as the constructor calls it
SplitCall ==
    /\ pq.phase = "split-call"
    /\ LET last_elt == 2 ^ pq.bit_depth
           split_elt == last_elt \div 2
           split_dist == split_elt \div 2
       IN  pq' = [phase |-> "split-done", image |-> pq.image,
                  bit_depth |-> pq.bit_depth, dither |-> pq.dither,
                  pal |-> split(PaletteRaw(pq.bit_depth, pq.junk), pq.image, 1,
                                last_elt, split_elt, split_dist, 1, pq.dither),
                  leaves |-> SplitLeaves(pq.image, 1, last_elt, split_elt, split_dist)]
    /\ UNCHANGED <<file, fclosed, wr, opened, hist, last, lz, cli>>

\* part_002:358-360
AxisChoose ==
    /\ pq.phase = "axis-call"
    /\ pq' = [phase |-> "axis-done", ranges |-> pq.ranges,
              split_com |-> SplitAxis(pq.ranges)]
    /\ UNCHANGED <<file, fclosed, wr, opened, hist, last, lz, cli>>

NextSplit == SplitCall \/ AxisChoose

SpecSplit == InitSplit /\ [][NextSplit]_vars

\* the pixels of all leaves, one leaf after the other
RECURSIVE LeafPixels(_, _)
LeafPixels(leaves, i) ==
    IF i > Len(leaves) THEN <<>> ELSE leaves[i].pixels \o LeafPixels(leaves, i + 1)

\* the leaves hold the training pixels, each as often as the image does, no
\* leaf index occurs twice and all lie in 1..2^bit_depth - 1, and the entries
\* assigned are those of the leaves
LeavesPartition ==
    LET all == LeafPixels(pq.leaves, 1)
    IN  /\ Len(all) = Len(pq.image)
        /\ \A p \in SplitPixels : PixelCount(all, p) = PixelCount(pq.image, p)
        /\ \A i \in 1..Len(pq.leaves) :
             /\ pq.leaves[i].leaf \in 1..(2 ^ pq.bit_depth - 1)
             /\ Len(pq.leaves[i].pixels) >= 1
             /\ \A j \in 1..Len(pq.leaves) : i # j => pq.leaves[i].leaf # pq.leaves[j].leaf
        /\ pq.pal.set_cols = {pq.leaves[i].leaf : i \in 1..Len(pq.leaves)}

\* the rounded mean, the least and the largest value of channel c
MeanOf(pixels, c) == (ChannelSum(pixels, c, 1) + Len(pixels) \div 2) \div Len(pixels)
LeastOf(pixels, c) == SetMin(Channel(pixels, c))
LargestOf(pixels, c) == SetMax(Channel(pixels, c))

PaletteEntry(pal, i) == <<pal.r[i], pal.g[i], pal.b[i]>>

(* C22, as stated: the leaves partition the training pixels, a leaf with    *)
(* n >= 1 pixels gets floor((sum + n/2) / n) per channel, and in dither     *)
(* mode leaf 1 gets the channel-wise minimum and leaf 2^bit_depth - 1 the   *)
(* channel-wise maximum of its pixels instead.                              *)
C22_Leaves ==
    pq.phase = "split-done" =>
        /\ LeavesPartition
        /\ \A i \in 1..Len(pq.leaves) :
             LET l == pq.leaves[i]
                 e == PaletteEntry(pq.pal, l.leaf)
             IN  /\ pq.dither /\ l.leaf = 1 => e = [c \in 1..3 |-> LeastOf(l.pixels, c)]
                 /\ pq.dither /\ l.leaf = 2 ^ pq.bit_depth - 1 =>
                        e = [c \in 1..3 |-> LargestOf(l.pixels, c)]
                 /\ ~(pq.dither /\ l.leaf \in {1, 2 ^ pq.bit_depth - 1}) =>
                        e = [c \in 1..3 |-> MeanOf(l.pixels, c)]

(* C22, amended: as stated, but leaf 2^bit_depth - 1 gets the channel-wise  *)
(* maximum in dither mode only when it is not leaf 1, that is when          *)
(* bit_depth >= 2; the one leaf of bit depth 1 gets the minimum.            *)
C22_LeavesFromTwo ==
    pq.phase = "split-done" =>
        /\ LeavesPartition
        /\ \A i \in 1..Len(pq.leaves) :
             LET l == pq.leaves[i]
                 e == PaletteEntry(pq.pal, l.leaf)
             IN  /\ pq.dither /\ l.leaf = 1 => e = [c \in 1..3 |-> LeastOf(l.pixels, c)]
                 /\ pq.dither /\ l.leaf = 2 ^ pq.bit_depth - 1 /\ pq.bit_depth >= 2 =>
                        e = [c \in 1..3 |-> LargestOf(l.pixels, c)]
                 /\ ~(pq.dither /\ l.leaf \in {1, 2 ^ pq.bit_depth - 1}) =>
                        e = [c \in 1..3 |-> MeanOf(l.pixels, c)]

\* a dither palette of bit depth 2 whose leaves 1, 2 and 3 got two different
\* pixels each
C22_Witness ==
    /\ pq.phase = "split-done"
    /\ pq.dither
    /\ pq.bit_depth = 2
    /\ {pq.leaves[i].leaf : i \in 1..Len(pq.leaves)} = {1, 2, 3}
    /\ \A i \in 1..Len(pq.leaves) :
         Len(pq.leaves[i].pixels) = 2 /\ pq.leaves[i].pixels[1] # pq.leaves[i].pixels[2]

(* C30: for every triple of channel ranges the axis split chooses has the   *)
(* largest range; it is R only when r_range is greater than both others,    *)
(* else B when b_range is greater than g_range, else G.                     *)
C30_SplitAxis ==
    pq.phase = "axis-done" =>
        LET r_range == pq.ranges[1]
            g_range == pq.ranges[2]
            b_range == pq.ranges[3]
            com == pq.split_com
        IN  /\ com \in 0..2
            /\ \A c \in 1..3 : pq.ranges[com + 1] >= pq.ranges[c]
            /\ com = 0 <=> (r_range > b_range /\ r_range > g_range)
            /\ com = 2 <=> (b_range > g_range /\ ~(r_range > b_range /\ r_range > g_range))

\* the three ranges are equal and not zero, and G was chosen
C30_Witness ==
    /\ pq.phase = "axis-done"
    /\ pq.ranges = <<254, 254, 254>>
    /\ pq.split_com = 1

(***************************************************************************)
(* SpecDither: dither_image (part_003:926-1021) a step at a time, on the   *)
(* palette write_frame builds for the frame when dithering                 *)
(* (part_003:1272-1274).  pq holds the working buffer quant_pixels, the    *)
(* pixel i = y * width + x the loop is at and, between the choice of its   *)
(* colour and the next pixel, its error and the number k of the next of    *)
(* the four targets.  Not in the source: target is the rounded colour last *)
(* searched for, adds the <<from, to, k>> of the additions made, clamps    *)
(* how many of them max() cut short.                                       *)
(***************************************************************************)
DitherDims == {<<1, 1>>, <<2, 1>>, <<1, 2>>, <<2, 2>>}
DitherDepths == {1, 2}
ColorM == <<150, 80, 45, 255>>
DitherColors == Colors \cup {ColorM}

\* the previous frames: none, or one of a single colour
DitherLast(num_pixels) ==
    {NoFrame} \cup {[i \in 1..num_pixels |-> <<c[1], c[2], c[3], 1>>] : c \in {ColorA, ColorM}}

InitDither ==
    /\ file = <<>>
    /\ fclosed = 0
    /\ wr = NoWriters
    /\ opened = NoOpen
    /\ hist = <<>>
    /\ last = NoCall
    /\ lz = LzIdle
    /\ cli = NoCli
    /\ \E d \in DitherDims, bit_depth \in DitherDepths, junk \in Junk :
         \E image \in ImagesOf(d[1], d[2], DitherColors),
            last_frame \in DitherLast(d[1] * d[2]) :
            pq = [phase |-> "quantize", last_frame |-> last_frame, image |-> image,
                  width |-> d[1], height |-> d[2], junk |-> junk,
                  pal |-> Palette(NoFrame, image, d[1], d[2], bit_depth, TRUE, junk),
                  quant |-> [i \in 1..(d[1] * d[2]) |->
                                <<image[i][1] * 256, image[i][2] * 256,
                                  image[i][3] * 256, image[i][4] * 256>>],
                  i |-> 0, k |-> 0, err |-> <<0, 0, 0>>,
                  target |-> <<0, 0, 0>>, adds |-> {}, clamps |-> 0]

\* part_003:939-979: the colour of pixel i is chosen
DitherQuantize ==
    /\ pq.phase = "quantize"
    /\ pq.i < pq.width * pq.height
    /\ LET next_pix == pq.quant[pq.i + 1]
           rr == TruncDiv(next_pix[1] + 127, 256)
           gg == TruncDiv(next_pix[2] + 127, 256)
           bb == TruncDiv(next_pix[3] + 127, 256)
           best == get_closest_pallete_color(pq.pal, rr, gg, bb, DitherStart, 1,
                                             pq.junk)
           best_ind == best[1]
       IN  pq' = IF SameAsLast(pq.last_frame, pq.i, rr, gg, bb)
                 THEN [pq EXCEPT !.quant[pq.i + 1] = <<rr, gg, bb, 0>>,
                                 !.target = <<rr, gg, bb>>,
                                 !.i = pq.i + 1]
                 ELSE [pq EXCEPT !.quant[pq.i + 1] =
                                     <<pq.pal.r[best_ind], pq.pal.g[best_ind],
                                       pq.pal.b[best_ind], best_ind>>,
                                 !.target = <<rr, gg, bb>>,
                                 !.err = <<next_pix[1] - pq.pal.r[best_ind] * 256,
                                           next_pix[2] - pq.pal.g[best_ind] * 256,
                                           next_pix[3] - pq.pal.b[best_ind] * 256>>,
                                 !.phase = "propagate",
                                 !.k = 1]
    /\ UNCHANGED <<file, fclosed, wr, opened, hist, last, lz, cli>>

\* the addition would go below zero without max()
Clamped(quant, loc, err, weight) ==
    \E c \in 1..3 : quant[loc + 1][c] + TruncDiv(err[c] * weight, 16) < 0

\* part_003:980-1013: the k-th of the four additions of pixel i's error
DitherPropagate ==
    /\ pq.phase = "propagate"
    /\ LET num_pixels == pq.width * pq.height
           x == pq.i % pq.width
           y == pq.i \div pq.width
           loc == ErrorTargets(x, y, pq.width)[pq.k]
           moved == IF pq.k = 4
                    THEN [pq EXCEPT !.phase = "quantize", !.i = pq.i + 1, !.k = 0]
                    ELSE [pq EXCEPT !.k = pq.k + 1]
       IN  pq' = IF loc[1] < num_pixels
                 THEN [moved EXCEPT
                          !.quant = AddError(pq.quant, loc[1], pq.err, loc[2]),
                          !.adds = pq.adds \cup {<<pq.i, loc[1], pq.k>>},
                          !.clamps = pq.clamps
                              + (IF Clamped(pq.quant, loc[1], pq.err, loc[2])
                                 THEN 1 ELSE 0)]
                 ELSE moved
    /\ UNCHANGED <<file, fclosed, wr, opened, hist, last, lz, cli>>

\* part_003:1017-1020: the working buffer is copied to the output
DitherCopy ==
    /\ pq.phase = "quantize"
    /\ ~(pq.i < pq.width * pq.height)
    /\ pq' = [pq EXCEPT !.phase = "dithered"]
    /\ UNCHANGED <<file, fclosed, wr, opened, hist, last, lz, cli>>

NextDither == DitherQuantize \/ DitherPropagate \/ DitherCopy

SpecDither == InitDither /\ [][NextDither]_vars

InDither == pq.phase \in {"quantize", "propagate", "dithered"}

\* the k-th neighbour of pixel `from`: right, below left, below, below right;
\* -1 when it is not in the image
Neighbour(from, k, width, height) ==
    LET x == from % width
        y == from \div width
        nx == IF k \in {1, 4} THEN x + 1 ELSE IF k = 2 THEN x - 1 ELSE x
        ny == IF k = 1 THEN y ELSE y + 1
    IN  IF nx >= 0 /\ nx < width /\ ny < height THEN ny * width + nx ELSE -1

(* C26: the error of pixel (x, y) is added only to its right, below-left,   *)
(* below and below-right neighbours, none of them when it falls outside the *)
(* image; never to the pixel itself or one already processed.               *)
C26_ErrorTargets ==
    InDither =>
        \A a \in pq.adds :
            /\ a[2] = Neighbour(a[1], a[3], pq.width, pq.height)
            /\ a[2] > a[1]

(* C27: every R, G and B value of the working buffer is >= 0 in every state *)
(* of the dither pass, and so is every rounded colour the search is given;  *)
(* the pass ends with the output dither_image returns.                      *)
C27_NonNegative ==
    InDither =>
        /\ \A p \in 1..Len(pq.quant) : \A c \in 1..3 : pq.quant[p][c] >= 0
        /\ \A c \in 1..3 : pq.target[c] >= 0
        /\ pq.phase = "dithered" =>
              dither_image(pq.last_frame, pq.image, pq.width, pq.height, pq.pal,
                           pq.junk).out
                  = [p \in 1..Len(pq.quant) |->
                        <<U8(pq.quant[p][1]), U8(pq.quant[p][2]), U8(pq.quant[p][3]),
                          U8(pq.quant[p][4])>>]

\* max() has cut an addition short: a pixel not yet processed holds 0 where
\* the frame does not
C27_Witness ==
    /\ InDither
    /\ pq.clamps >= 1
    /\ \E p \in (pq.i + 2)..Len(pq.quant) : \E c \in 1..3 :
          pq.quant[p][c] = 0 /\ pq.image[p][c] # 0

(***************************************************************************)
(* SpecPick: pick_changed_pixels (part_003:905-924) is called on every     *)
(* pair of a previous frame and a frame of at most MaxPickLen pixels drawn *)
(* from PickPixels.                                                        *)
(***************************************************************************)
MaxPickLen == 3

\* pixels that differ in one channel only, one of them in the 4th
PickPixels == {<<1, 1, 1, 9>>, <<2, 1, 1, 9>>, <<1, 2, 1, 9>>, <<1, 1, 2, 9>>,
               <<1, 1, 1, 7>>}

InitPick ==
    /\ file = <<>>
    /\ fclosed = 0
    /\ wr = NoWriters
    /\ opened = NoOpen
    /\ hist = <<>>
    /\ last = NoCall
    /\ lz = LzIdle
    /\ cli = NoCli
    /\ \E n \in 1..MaxPickLen :
         \E last_frame \in [1..n -> PickPixels], frame \in [1..n -> PickPixels] :
            pq = [phase |-> "pick-call", last_frame |-> last_frame, frame |-> frame,
                  num_pixels |-> n]

\* part_003:876-878: the call
PickCall ==
    /\ pq.phase = "pick-call"
    /\ LET picked == pick_changed_pixels(pq.last_frame, pq.frame, pq.num_pixels)
       IN  pq' = [phase |-> "pick-done", last_frame |-> pq.last_frame,
                  frame |-> pq.frame, num_pixels |-> pq.num_pixels,
                  picked |-> picked.frame, num_changed |-> picked.num_changed]
    /\ UNCHANGED <<file, fclosed, wr, opened, hist, last, lz, cli>>

NextPick == PickCall

SpecPick == InitPick /\ [][NextPick]_vars

\* pixel p (from 1) of the frame differs from the previous frame in R, G or B
PickChanged(p) == RGB(pq.frame[p]) # RGB(pq.last_frame[p])

\* how many pixels up to p differ
PickRank(p) == Cardinality({q \in 1..p : PickChanged(q)})

(* C28: pick_changed_pixels returns the number of pixels whose R, G or B    *)
(* differs from the previous frame's, and leaves the RGB of those pixels,   *)
(* in raster order, in the first pixels of the buffer.                      *)
C28_PickChanged ==
    pq.phase = "pick-done" =>
        /\ pq.num_changed = PickRank(pq.num_pixels)
        /\ Len(pq.picked) = pq.num_pixels
        /\ \A p \in 1..pq.num_pixels :
              PickChanged(p) => RGB(pq.picked[PickRank(p)]) = RGB(pq.frame[p])

\* two changed pixels after an unchanged one and one that differs in the 4th
\* byte only
C28_Witness ==
    /\ pq.phase = "pick-done"
    /\ pq.num_changed = 2
    /\ ~PickChanged(1)
    /\ pq.frame[1] # pq.last_frame[1]
    /\ RGB(pq.frame[2]) # RGB(pq.frame[3])

====
